---------------------------- MODULE Spec2Model ----------------------------
(***************************************************************************)
(* Verification model of the arachnid cryo-EM toolkit:                     *)
(*   - app/diffclean.py      particle cleaning (view grouping, decimation) *)
(*   - app/align_frames.py   movie frame alignment                         *)
(*   - core/gui/ImageViewer.py  image viewer paging and file intake        *)
(* Every part of the program has its own variables and its own             *)
(* specification; a specification keeps the variables of the other parts   *)
(* at their idle values.                                                   *)
(***************************************************************************)
EXTENDS Integers, Sequences, FiniteSets, TLC

VARIABLES
    \* ---- diffclean.py: init_root ----
    label_style,    \* "tuple" (filename, label array) or "list" [(filename, index)]
    ref,            \* view number of every particle (read_alignment's ref)
    single_view,    \* option single_view
    group,          \* what group_by_reference returned
    newgroup,       \* what init_root returns (the groups to process)
    root_pc,        \* "start", "done", or the exception init_root ended with
    \* ---- diffclean.py: decimation_level ----
    dl_apix, dl_window, dl_resolution,
    dl_out,         \* [raised, value]: the outcome of decimation_level
    \* ---- align_frames.py: get_window ----
    crop,           \* option crop
    avg_shape,      \* avg.shape = <<rows, columns>>
    gw_out,         \* [called, x, y, w, h]: what get_window returned
    \* ---- align_frames.py: align_l2 ----
    l2_n,           \* len(fourier_frames)
    l2_gap,         \* option gap
    l2_t,           \* the true position of every frame, l2_t[1] = 0
    l2_out,         \* [state, pairs, A, b, integral, trans]
    \* ---- align_frames.py: initialize, process ----
    files,          \* the files to process
    files_in,       \* files as handed to initialize
    finished,       \* param['finished']
    valid_images,   \* the files ndimage_file.valid_image accepts
    warned,         \* the counts logged by "Found %d corrupt files"
    param_apix,     \* param['apix']
    apix_in,        \* the pixel size of the frames: the option, or the parameter file's
    bin_factor, param_file, benchmark, mode,
    param_gap,      \* param['gap']
    translation_file,
    results,        \* per processed file how process() ended
    written,        \* the output files written: [file, kind, apix]
    coords,         \* what the last alignment returned
    app_pc,         \* "start", "initialized", or the exception initialize ended with
    \* ---- ImageViewer.py: MainWindow ----
    self_files,         \* self.files: the open files
    file_index,         \* self.file_index: one row <<file, image, 0>> per image
    pageSpinBox,        \* [value, minimum, maximum]
    imageCountSpinBox,  \* [value, minimum, maximum]
    average,            \* advanced_settings.average
    imageListModel,     \* the entries on display
    windowTitle,
    actionForward,      \* whether the action is enabled
    actionBackward,
    readable,           \* the files ndimage_file.is_readable accepts
    image_count,        \* ndimage_file.count_images of every file
    last_call,          \* the handler that ran last and what its page load did
    \* ---- ImageViewer.py: MainWindow settings ----
    inifile,            \* self.inifile
    settings_store,     \* the settings file: [saved, Advanced]
    advanced_settings,  \* [average, show_label, window, contrast]
    contrastSlider,     \* the slider the read-only setting contrast mirrors
    form_contrast,      \* the slider's value in the form
    closed_settings,    \* the advanced settings in effect at the last close
    win_state,          \* "open", "closed", "restored" (constructed after a close)
    session,            \* how many windows were constructed
    \* ---- eman_format.py ----
    disk,               \* the image file: [exists, type, images, source, apix, stamped, marked, patched]
    fmt_out,            \* the last call of the format adapter, its arguments and outcome
    library,            \* what the libraries behind the adapter do: [stamps, marks]
    \* ---- estimate2d.py ----
    search,             \* the call of search_model_2d: its arguments, locals and position
    \* ---- diffclean.py: one_class_classification ----
    occ,                \* the distances, neig, and the last two calls: [dist, neig, ncols, prob, sel, ...]
    \* ---- diffclean.py: process, reduce_all, finalize ----
    job,                \* the run: options, views still to process, finished views, reduced views
    proc,               \* per worker: its position in process(), its view, thread count, matrix, sel
    matrix_cache,       \* the file cache_file names: whose matrix it holds, who wrote it
    sel_by_mic,         \* param['sel_by_mic']: micrograph -> list of selected indices
    \* ---- diffclean.py: the view's table written by process, re-read by finalize ----
    table,              \* [state, with_group, prefix, feat, meta, columns, rows, sel, fin_columns, fin_sel]
    \* ---- diffclean.py: the bandwidth search of process (scale < 0) ----
    rbf,                \* [pc, flat, fades, sigma, totmax, totmin]
    \* ---- align_frames.py: the cached Fourier frames as objects in memory ----
    bench,              \* [pc, heap, fourier_frames, cached, lowpass, diagnostic, benchmark, mode]
    \* ---- ImageViewer.py: iter_images in average mode ----
    averaging,          \* [pc, images, shares, emdata, view, own, i]
    \* ---- ImageViewer.py: the zoom slider and the zoom spin box ----
    zoomui,             \* [slider, spin, pending, slider_runs, spin_runs, icon, imagesize, zoom]
    \* ---- ImageViewer.py: addToolTipImage ----
    tooltip             \* [pc, first, second_image, exists, path_prefix, prefixed,
                        \*  current_powerspec, power_spectra, kinds]

cleanVars == <<label_style, ref, single_view, group, newgroup, root_pc>>
decVars   == <<dl_apix, dl_window, dl_resolution, dl_out>>
winVars   == <<crop, avg_shape, gw_out>>
l2Vars    == <<l2_n, l2_gap, l2_t, l2_out>>
appVars   == <<files, files_in, finished, valid_images, warned, param_apix, apix_in,
               bin_factor, param_file, benchmark, mode, param_gap, translation_file,
               results, written, coords, app_pc>>
viewerVars == <<self_files, file_index, pageSpinBox, imageCountSpinBox, average,
                imageListModel, windowTitle, actionForward, actionBackward, readable,
                image_count, last_call>>
settingsVars == <<inifile, settings_store, advanced_settings, contrastSlider, form_contrast,
                  closed_settings, win_state, session>>
formatVars == <<disk, fmt_out, library>>
ctfVars   == <<search>>
occVars   == <<occ>>
procVars  == <<job, proc, matrix_cache, sel_by_mic>>
tableVars == <<table>>
rbfVars   == <<rbf>>
benchVars == <<bench>>
avgVars   == <<averaging>>
zoomVars  == <<zoomui>>
tipVars   == <<tooltip>>
vars      == <<cleanVars, decVars, winVars, l2Vars, appVars, viewerVars, settingsVars, formatVars, ctfVars, occVars, procVars, tableVars, rbfVars, benchVars, avgVars, zoomVars, tipVars>>

-----------------------------------------------------------------------------
(* Generic helpers                                                         *)

Range(s) == {s[i] : i \in 1..Len(s)}

Indices(s) == [i \in 1..Len(s) |-> i]

RECURSIVE SumSeq(_)
SumSeq(s) == IF s = <<>> THEN 0 ELSE Head(s) + SumSeq(Tail(s))

RECURSIVE SortedSeq(_)
\* numpy.unique: the distinct values, ascending
SortedSeq(S) ==
    IF S = {} THEN <<>>
    ELSE LET m == CHOOSE x \in S : \A y \in S : x <= y
         IN  <<m>> \o SortedSeq(S \ {m})

Reverse(s) == [i \in 1..Len(s) |-> s[Len(s) + 1 - i]]

-----------------------------------------------------------------------------
(* diffclean.py: group_by_reference and init_root                          *)

\* Bounds of the inputs
MaxParticles == 3
MaxView == 2
\* diffclean.py:657   if count[i] > 20
ViewSizeCutoff == 20

Views == 0..MaxView

\* numpy.argwhere(sel).squeeze() for sel = (r == ref): argwhere has shape
\* (k, 1); squeeze drops every axis of length 1, so one hit leaves a 0-d array.
argwhere_squeeze(refv, r) ==
    LET hits == SelectSeq(Indices(refv), LAMBDA i : refv[i] = r)
    IN  [ndim |-> IF Len(hits) = 1 THEN 0 ELSE 1, items |-> hits]

\* label[sel] / align[sel]: boolean-mask selection keeps the rows in order
mask_select(refv, r) == SelectSeq(Indices(refv), LAMBDA i : refv[i] = r)

\* A particle is named by its row in label/align; a group is
\* (view, selected label rows, selected align rows): the rows are the same.
group_by_reference(style, refv) ==
    LET refs == SortedSeq(Range(refv))
    IN  IF style = "tuple"
        THEN [raised |-> "",
              group  |-> [k \in 1..Len(refs) |->
                            [view |-> refs[k], members |-> mask_select(refv, refs[k])]]]
        ELSE \* for i in numpy.argwhere(sel).squeeze(): a 0-d array is not iterable
             IF \E k \in 1..Len(refs) : argwhere_squeeze(refv, refs[k]).ndim = 0
             THEN [raised |-> "TypeError", group |-> <<>>]
             ELSE [raised |-> "",
                   group  |-> [k \in 1..Len(refs) |->
                                [view |-> refs[k],
                                 members |-> argwhere_squeeze(refv, refs[k]).items]]]

\* count[i] = len(group[i][1][1]) or len(group[i][1])
group_count(g) == [i \in 1..Len(g) |-> Len(g[i].members)]

\* numpy.argsort(count): a permutation that sorts count ascending; the order
\* of equal counts is whatever the sort leaves.
ArgSorts(count) ==
    {p \in [1..Len(count) -> 1..Len(count)] :
        /\ \A i, j \in 1..Len(count) : i # j => p[i] # p[j]
        /\ \A i \in 1..(Len(count) - 1) : count[p[i]] <= count[p[i + 1]]}

\* for i in index[::-1]: if count[i] > 20: newgroup.append(group[i])
keep_large(g, index) ==
    LET order == Reverse(index)
        kept  == SelectSeq(order, LAMBDA i : group_count(g)[i] > ViewSizeCutoff)
    IN  [k \in 1..Len(kept) |-> g[kept[k]]]

InitRoot ==
    /\ root_pc = "start"
    /\ LET res == group_by_reference(label_style, ref)
       IN  IF res.raised # ""
           THEN /\ root_pc' = res.raised
                /\ UNCHANGED <<group, newgroup>>
           ELSE /\ group' = res.group
                /\ IF single_view > 0
                   THEN IF single_view > Len(res.group)
                        THEN /\ root_pc' = "IndexError"
                             /\ UNCHANGED newgroup
                        ELSE /\ newgroup' = <<res.group[single_view]>>
                             /\ root_pc' = "done"
                   ELSE /\ \E index \in ArgSorts(group_count(res.group)) :
                              newgroup' = keep_large(res.group, index)
                        /\ root_pc' = "done"
    /\ UNCHANGED <<label_style, ref, single_view>>
    /\ UNCHANGED <<decVars, winVars, l2Vars, appVars, viewerVars, settingsVars, formatVars, ctfVars, occVars, procVars, tableVars, rbfVars, benchVars, avgVars, zoomVars, tipVars>>

\* Inputs: every assignment of up to MaxParticles particles to the views, and
\* two-view assignments whose view sizes lie around the cutoff.
SmallRefs == UNION {[1..n -> Views] : n \in 0..MaxParticles}

NearCutoff == {1, ViewSizeCutoff - 1, ViewSizeCutoff, ViewSizeCutoff + 1}

BlockRef(s1, s2) == [i \in 1..(s1 + s2) |-> IF i <= s1 THEN 0 ELSE 1]

BlockRefs == {BlockRef(s1, s2) : s1 \in NearCutoff, s2 \in NearCutoff \cup {0}}

CleanInit ==
    /\ label_style \in {"tuple", "list"}
    /\ ref \in SmallRefs \cup BlockRefs
    /\ single_view \in 0..MaxView
    /\ group = <<>>
    /\ newgroup = <<>>
    /\ root_pc = "start"

CleanIdle ==
    /\ label_style = "tuple"
    /\ ref = <<>>
    /\ single_view = 0
    /\ group = <<>>
    /\ newgroup = <<>>
    /\ root_pc = "idle"

DecIdle ==
    /\ dl_apix = 0
    /\ dl_window = 0
    /\ dl_resolution = 0
    /\ dl_out = [raised |-> "idle", value |-> [num |-> 0, den |-> 1]]

WinIdle ==
    /\ crop = <<>>
    /\ avg_shape = <<0, 0>>
    /\ gw_out = [called |-> "idle", x |-> 0, y |-> 0, w |-> 0, h |-> 0]

L2Idle ==
    /\ l2_n = 0
    /\ l2_gap = 0
    /\ l2_t = <<>>
    /\ l2_out = [state |-> "idle", pairs |-> <<>>, A |-> <<>>, b |-> <<>>,
                 integral |-> TRUE, trans |-> <<>>]

AppIdle ==
    /\ files = <<>>
    /\ files_in = <<>>
    /\ finished = <<>>
    /\ valid_images = {}
    /\ warned = <<>>
    /\ param_apix = 0
    /\ apix_in = 0
    /\ bin_factor = 1
    /\ param_file = ""
    /\ benchmark = FALSE
    /\ mode = 0
    /\ param_gap = 0
    /\ translation_file = ""
    /\ results = {}
    /\ written = {}
    /\ coords = [state |-> "idle", integral |-> TRUE, trans |-> <<>>, estimated |-> <<>>]
    /\ app_pc = "idle"

\* what a handler that loads no page leaves in last_call.load
NoLoad == [ran |-> FALSE, reset |-> FALSE, request |-> <<0, 0>>, first |-> <<>>,
           average |-> FALSE]

ViewerIdle ==
    /\ self_files = <<>>
    /\ file_index = <<>>
    /\ pageSpinBox = [value |-> 0, minimum |-> 0, maximum |-> 0]
    /\ imageCountSpinBox = [value |-> 0, minimum |-> 0, maximum |-> 0]
    /\ average = FALSE
    /\ imageListModel = <<>>
    /\ windowTitle = [kind |-> "idle", files |-> 0, images |-> 0]
    /\ actionForward = FALSE
    /\ actionBackward = FALSE
    /\ readable = {}
    /\ image_count = <<>>
    /\ last_call = [op |-> "idle", batch |-> <<>>, error |-> FALSE, load |-> NoLoad]

SettingsIdle ==
    /\ inifile = ""
    /\ settings_store = [saved |-> FALSE, Advanced |-> <<>>]
    /\ advanced_settings = [average |-> FALSE, show_label |-> FALSE, window |-> 0, contrast |-> 0]
    /\ contrastSlider = 0
    /\ form_contrast = 0
    /\ closed_settings = advanced_settings
    /\ win_state = "idle"
    /\ session = 0

\* no file
NoFile == [exists |-> FALSE, type |-> "", images |-> <<>>, source |-> <<>>, apix |-> 0,
           stamped |-> 0, marked |-> FALSE, patched |-> FALSE]

\* the arguments of a call: index, type, the type of the file name's
\* extension, img, header (apix = 0: no header given)
NoArgs == [has_index |-> FALSE, index |-> 0, type |-> "None", ext |-> "", img |-> <<>>,
           apix |-> 0]

FormatCall(op, args, state, type, img, apix, yielded) ==
    [op |-> op, args |-> args, state |-> state, type |-> type, img |-> img, apix |-> apix,
     yielded |-> yielded]

FormatIdle ==
    /\ disk = NoFile
    /\ fmt_out = FormatCall("idle", NoArgs, "", "", <<>>, 0, <<>>)
    /\ library = [stamps |-> FALSE, marks |-> FALSE]

\* search_model_2d not called
NoSearch ==
    [pc |-> "idle",
     args |-> [rmin |-> 0, rmax |-> 0, dfmin |-> 0, dfmax |-> 0, fstep |-> 0],
     ordered |-> [rmin |-> 0, rmax |-> 0],
     rmin |-> 0, rmax |-> 0, dfmin |-> 0, dfmax |-> 0,
     smoothed |-> FALSE, k |-> 0, i |-> 0, j |-> 0, df |-> <<0, 0>>, p |-> 0]

CtfIdle == search = NoSearch

OccIdle ==
    occ = [dist |-> <<>>, neig |-> 0, ncols |-> 0, calls |-> 0, prob_reject |-> 0, sel |-> <<>>,
           prev_prob |-> 0, prev_sel |-> <<>>]

ProcIdle ==
    /\ job = [cache_file |-> "", prob_reject |-> 0, files |-> {}, finished |-> {}, corrupt |-> {},
              reduced |-> {}, output |-> <<>>, finalized |-> FALSE]
    /\ proc = <<>>
    /\ matrix_cache = [holds |-> 0, writers |-> {}]
    /\ sel_by_mic = <<>>

NoTable ==
    [state |-> "idle", with_group |-> FALSE, prefix |-> 0, feat |-> <<>>, meta |-> <<>>,
     columns |-> <<>>, rows |-> <<>>, sel |-> <<>>, fin_columns |-> <<>>, fin_sel |-> <<>>]

TableIdle == table = NoTable

RbfIdle ==
    rbf = [pc |-> "idle", flat |-> 0, fades |-> 0, sigma |-> <<>>, totmax |-> 0, totmin |-> 0]

BenchIdle ==
    bench = [pc |-> "idle", heap |-> <<>>, fourier_frames |-> <<>>, cached |-> <<>>,
             lowpass |-> FALSE, diagnostic |-> FALSE, benchmark |-> FALSE, mode |-> 0]

AvgIdle ==
    averaging = [pc |-> "idle", images |-> <<>>, shares |-> FALSE, emdata |-> 0,
                 view |-> FALSE, own |-> 0, i |-> 0]

ZoomIdle ==
    zoomui = [slider |-> 0, spin |-> 0, pending |-> <<>>, slider_runs |-> 0, spin_runs |-> 0,
              icon |-> 0, imagesize |-> 0, zoom |-> 0]

TipIdle ==
    tooltip = [pc |-> "idle", first |-> FALSE, second_image |-> FALSE, exists |-> FALSE,
               path_prefix |-> FALSE, prefixed |-> FALSE, current_powerspec |-> FALSE,
               power_spectra |-> 0, kinds |-> <<>>]

InitGroup == CleanInit /\ DecIdle /\ WinIdle /\ L2Idle /\ AppIdle /\ ViewerIdle /\ SettingsIdle /\ FormatIdle /\ CtfIdle /\ OccIdle /\ ProcIdle /\ TableIdle /\ RbfIdle /\ BenchIdle /\ AvgIdle /\ ZoomIdle /\ TipIdle

NextGroup == InitRoot

SpecGroup == InitGroup /\ [][NextGroup]_vars

\* Every input particle lies in exactly one group, the group of its own view,
\* and the group sizes add up to the number of particles.
PartitionsInput(g, refv) ==
    /\ \A i \in 1..Len(refv) :
          /\ Cardinality({km \in {<<k, m>> : k \in 1..Len(g), m \in 1..Len(refv)} :
                             /\ km[2] <= Len(g[km[1]].members)
                             /\ g[km[1]].members[km[2]] = i}) = 1
          /\ \A k \in 1..Len(g) :
                i \in Range(g[k].members) => g[k].view = refv[i]
    /\ SumSeq(group_count(g)) = Len(refv)

\* C1 (as claimed): group_by_reference partitions the input for every
\* assignment of particles to views, single-particle views included, for the
\* tuple-style and the list-style label: whenever init_root has called it, it
\* returned groups in which every particle appears exactly once, in the group
\* of its own ref value, and the group sizes sum to the particle count.
C1_GroupsPartitionInput ==
    root_pc # "start" => (root_pc # "TypeError" /\ PartitionsInput(group, ref))

\* C2 (as claimed): with single_view = 0, init_root keeps for processing
\* exactly the view groups with at least 20 members and drops exactly those
\* with fewer than 20.
C2_KeepsViewsOfAtLeast20 ==
    (root_pc = "done" /\ single_view = 0) =>
        Range(newgroup) =
            {group[k] : k \in {j \in 1..Len(group) : Len(group[j].members) >= ViewSizeCutoff}}

-----------------------------------------------------------------------------
(* diffclean.py: decimation_level                                          *)

\* Bounds of the inputs
MaxApix == 2
MaxWindow == 10
MaxResolution == 4

\* Exact fractions num/den with den > 0 stand for the floats.
Frac(n, d) == IF d < 0 THEN [num |-> -n, den |-> -d] ELSE [num |-> n, den |-> d]

FracOfInt(n) == [num |-> n, den |-> 1]

FracAdd(a, b) == [num |-> a.num * b.den + b.num * a.den, den |-> a.den * b.den]

\* a / b for b # 0
FracDiv(a, b) == Frac(a.num * b.den, a.den * b.num)

FracLess(a, b) == a.num * b.den < b.num * a.den

\* Python's max(a, b) and min(a, b): the first argument unless the second is
\* strictly greater (smaller)
PyMax(a, b) == IF FracLess(a, b) THEN b ELSE a

PyMin(a, b) == IF FracLess(b, a) THEN b ELSE a

\* if order == 0 or 1 == 1: return resolution
resolution_from_order(apix, resolution) == resolution

\* Python float division raises ZeroDivisionError on a zero divisor.
decimation_level(apix, window, resolution) ==
    LET res  == FracOfInt(resolution_from_order(apix, resolution))
        a3   == FracOfInt(apix * 3)
        dec  == FracDiv(res, a3)                                \* resolution / (apix*3)
        d1   == FracAdd(FracDiv(FracOfInt(window), dec), FracOfInt(10)) \* float(window)/dec + 10
        d2   == FracDiv(FracOfInt(window), d1)                   \* window/float(d)
    IN  IF a3.num = 0 THEN [raised |-> "ZeroDivisionError", value |-> FracOfInt(0)]
        ELSE IF dec.num = 0 THEN [raised |-> "ZeroDivisionError", value |-> FracOfInt(0)]
        ELSE IF d1.num = 0 THEN [raised |-> "ZeroDivisionError", value |-> FracOfInt(0)]
        ELSE [raised |-> "", value |-> PyMin(PyMax(d2, FracOfInt(1)), FracOfInt(8))]

DecimationLevel ==
    /\ dl_out.raised = "not called"
    /\ dl_out' = decimation_level(dl_apix, dl_window, dl_resolution)
    /\ UNCHANGED <<dl_apix, dl_window, dl_resolution>>
    /\ UNCHANGED <<cleanVars, winVars, l2Vars, appVars, viewerVars, settingsVars, formatVars, ctfVars, occVars, procVars, tableVars, rbfVars, benchVars, avgVars, zoomVars, tipVars>>

DecInit ==
    /\ dl_apix \in 1..MaxApix
    /\ dl_window \in 0..MaxWindow
    /\ dl_resolution \in (-MaxResolution)..MaxResolution
    /\ dl_out = [raised |-> "not called", value |-> FracOfInt(0)]

InitDecimate == DecInit /\ CleanIdle /\ WinIdle /\ L2Idle /\ AppIdle /\ ViewerIdle /\ SettingsIdle /\ FormatIdle /\ CtfIdle /\ OccIdle /\ ProcIdle /\ TableIdle /\ RbfIdle /\ BenchIdle /\ AvgIdle /\ ZoomIdle /\ TipIdle

NextDecimate == DecimationLevel

SpecDecimate == InitDecimate /\ [][NextDecimate]_vars

\* C3 (as claimed): decimation_level returns a value d with 1 <= d <= 8 for
\* every resolution, window and pixel size, zero and negative resolution
\* included, and never fails instead of returning.
C3_DecimationWithin1And8 ==
    dl_out.raised # "not called" =>
        /\ dl_out.raised = ""
        /\ ~FracLess(dl_out.value, FracOfInt(1))
        /\ ~FracLess(FracOfInt(8), dl_out.value)

-----------------------------------------------------------------------------
(* align_frames.py: get_window                                             *)

\* Bounds of the inputs
MaxCoord == 2
MaxDim == 2

\* get_window with the two axes of avg.shape mixed up
get_window_swapped(shape, c) ==
    LET x == IF Len(c) > 0 THEN c[1] ELSE 0
        y == IF Len(c) > 1 THEN c[2] ELSE 0
        w == IF Len(c) > 2 THEN c[3] ELSE -1
        h == IF Len(c) > 3 THEN c[4] ELSE -1
    IN  [called |-> "yes", x |-> x, y |-> y,
         w |-> IF w = -1 THEN shape[1] ELSE w,
         h |-> IF h = -1 THEN shape[2] ELSE h]

\* x, y, w, h = 0, 0, -1, -1; each entry of crop that is present replaces its
\* default; a w (h) of -1 becomes the full width (height).
get_window(shape, c) ==
    LET x == IF Len(c) > 0 THEN c[1] ELSE 0
        y == IF Len(c) > 1 THEN c[2] ELSE 0
        w == IF Len(c) > 2 THEN c[3] ELSE -1
        h == IF Len(c) > 3 THEN c[4] ELSE -1
    IN  [called |-> "yes", x |-> x, y |-> y,
         w |-> IF w = -1 THEN shape[2] ELSE w,
         h |-> IF h = -1 THEN shape[1] ELSE h]

GetWindow ==
    /\ gw_out.called = "no"
    /\ gw_out' = get_window(avg_shape, crop)
    /\ UNCHANGED <<crop, avg_shape>>
    /\ UNCHANGED <<cleanVars, decVars, l2Vars, appVars, viewerVars, settingsVars, formatVars, ctfVars, occVars, procVars, tableVars, rbfVars, benchVars, avgVars, zoomVars, tipVars>>

CropValues == (-1)..MaxCoord

WinInit ==
    /\ crop \in UNION {[1..n -> CropValues] : n \in 0..4}
    /\ avg_shape \in (1..MaxDim) \X (1..MaxDim)
    /\ gw_out = [called |-> "no", x |-> 0, y |-> 0, w |-> 0, h |-> 0]

InitWindow == WinInit /\ CleanIdle /\ DecIdle /\ L2Idle /\ AppIdle /\ ViewerIdle /\ SettingsIdle /\ FormatIdle /\ CtfIdle /\ OccIdle /\ ProcIdle /\ TableIdle /\ RbfIdle /\ BenchIdle /\ AvgIdle /\ ZoomIdle /\ TipIdle

NextWindow == GetWindow

SpecWindow == InitWindow /\ [][NextWindow]_vars

full_width  == avg_shape[2]
full_height == avg_shape[1]

\* C5 (as claimed): get_window returns (0, 0, full_width, full_height) for an
\* empty crop list, (x, y, full_width, full_height) for a two-entry crop list
\* and the four entries verbatim whenever the crop list has all four entries.
C5_WindowAsClaimed ==
    gw_out.called = "yes" =>
        /\ Len(crop) = 0 =>
              <<gw_out.x, gw_out.y, gw_out.w, gw_out.h>> = <<0, 0, full_width, full_height>>
        /\ Len(crop) = 2 =>
              <<gw_out.x, gw_out.y, gw_out.w, gw_out.h>> = <<crop[1], crop[2], full_width, full_height>>
        /\ Len(crop) = 4 =>
              <<gw_out.x, gw_out.y, gw_out.w, gw_out.h>> = crop

\* C5 (amended): as claimed for the empty and the two-entry crop list; a
\* four-entry crop list is returned verbatim except that a width of -1 is
\* replaced by the full width and a height of -1 by the full height.
C5_WindowFourEntriesUnlessMinusOne ==
    gw_out.called = "yes" =>
        /\ Len(crop) = 0 =>
              <<gw_out.x, gw_out.y, gw_out.w, gw_out.h>> = <<0, 0, full_width, full_height>>
        /\ Len(crop) = 2 =>
              <<gw_out.x, gw_out.y, gw_out.w, gw_out.h>> = <<crop[1], crop[2], full_width, full_height>>
        /\ Len(crop) = 4 =>
              /\ <<gw_out.x, gw_out.y>> = <<crop[1], crop[2]>>
              /\ gw_out.w = (IF crop[3] = -1 THEN full_width ELSE crop[3])
              /\ gw_out.h = (IF crop[4] = -1 THEN full_height ELSE crop[4])

\* the default crop [0, 0, -1, -1] on a non-square image has been windowed
C5_Witness ==
    /\ gw_out.called = "yes"
    /\ crop = <<0, 0, -1, -1>>
    /\ avg_shape[1] # avg_shape[2]

-----------------------------------------------------------------------------
(* align_frames.py: align_l2                                               *)
(* One coordinate of the shifts is modelled: lstsq solves the x and the y  *)
(* column of b independently with the same matrix A.                       *)

\* Bounds of the inputs
MaxFrames == 4
MaxGap == 3
MaxShift == 1

l2_pairs_adjacent(n, gap) ==
    LET all == [k \in 1..((n - 1) * n) |-> <<(k - 1) \div n, (k - 1) % n>>]
    IN  SelectSeq(all, LAMBDA p : p[2] >= p[1] + 1)

\* for i in xrange(len(fourier_frames)-1): for j in xrange(i+gap, len(fourier_frames)):
\* the pairs <<i, j>> in loop order, frames numbered from 0
l2_pairs(n, gap) ==
    LET all == [k \in 1..((n - 1) * n) |-> <<(k - 1) \div n, (k - 1) % n>>]
    IN  SelectSeq(all, LAMBDA p : p[2] >= p[1] + gap)

\* A[i, p[0]:p[1]] = 1 ; column c of the model is column c-1 of the code
design_matrix(pairs, n) ==
    [r \in 1..Len(pairs) |->
        [c \in 1..(n - 1) |-> IF pairs[r][1] <= c - 1 /\ c - 1 < pairs[r][2] THEN 1 ELSE 0]]

\* alignment.xcorr_dft_peak on noise-free frames: the shift of frame j
\* against frame i
measured_shift(t, p) == t[p[2] + 1] - t[p[1] + 1]

Dot(u, v) == SumSeq([k \in 1..Len(u) |-> u[k] * v[k]])

MatVec(A, x) == [r \in 1..Len(A) |-> Dot(A[r], x)]

RECURSIVE Product(_)
\* the sequences whose k-th entry is drawn from the k-th set
Product(sets) ==
    IF sets = <<>> THEN {<<>>}
    ELSE {<<h>> \o rest : h \in Head(sets), rest \in Product(Tail(sets))}

\* the least r with r*r >= cols * MaxShift^2: no entry of a solution of
\* minimum norm exceeds the norm of the true increments
EntryBound(cols) ==
    CHOOSE r \in 0..(cols * MaxShift) :
        /\ r * r >= cols * MaxShift * MaxShift
        /\ \A q \in 0..(cols * MaxShift) : q * q >= cols * MaxShift * MaxShift => r <= q

\* the candidates for column c: two rows that differ in column c alone fix
\* its entry; otherwise any entry within the bound
ColumnCandidates(A, b, cols, c) ==
    LET rows  == 1..Len(A)
        fixed == {b[rr[1]] - b[rr[2]] : rr \in {q \in rows \X rows :
                     \A k \in 1..cols : A[q[1]][k] - A[q[2]][k] = (IF k = c THEN 1 ELSE 0)}}
    IN  IF fixed # {} THEN fixed ELSE (-EntryBound(cols))..EntryBound(cols)

\* the null vectors of A with entries -1, 0, 1 (they span the null space of a
\* matrix whose rows are runs of consecutive ones)
NullVectors(A, cols) ==
    {z \in [1..cols -> {-1, 0, 1}] : \A r \in 1..Len(A) : Dot(A[r], z) = 0}

\* numpy.linalg.lstsq(A, b)[0] for a consistent system: the solution of
\* A x = b of minimum norm, which is the one orthogonal to the null space.
\* The model holds integers: when that solution is not integral the outcome
\* says so and carries no value. With no rows at all the routine either
\* raises (math.log(0) in the work-size computation) or returns zeros,
\* depending on the numpy release.
lstsq(A, b, cols) ==
    IF Len(A) = 0
    THEN {[raised |-> "ValueError", integral |-> TRUE, x |-> <<>>],
          [raised |-> "", integral |-> TRUE, x |-> [c \in 1..cols |-> 0]]}
    ELSE LET cand == Product([c \in 1..cols |-> ColumnCandidates(A, b, cols, c)])
             nullv == NullVectors(A, cols)
             sols == {x \in cand : /\ MatVec(A, x) = b
                                   /\ \A z \in nullv : Dot(x, z) = 0}
         IN  IF sols = {}
             THEN {[raised |-> "", integral |-> FALSE, x |-> <<>>]}
             ELSE {[raised |-> "", integral |-> TRUE, x |-> x] : x \in sols}

\* x0.cumsum(axis=0)
RECURSIVE cumsum(_)
cumsum(x) ==
    IF x = <<>> THEN <<>>
    ELSE LET front == cumsum(SubSeq(x, 1, Len(x) - 1))
         IN  Append(front, (IF front = <<>> THEN 0 ELSE front[Len(front)]) + x[Len(x)])

\* align_l2: the outcomes for n frames at the true positions t
align_l2(n, gap, t) ==
    LET pairs == l2_pairs(n, gap)
        A == design_matrix(pairs, n)
        b == [r \in 1..Len(pairs) |-> measured_shift(t, pairs[r])]
    IN  IF \E r \in 1..Len(pairs) : ~(pairs[r][2] - pairs[r][1] >= gap
                                      \/ pairs[r][1] - pairs[r][2] >= gap)
        THEN {[state |-> "AssertionError", pairs |-> pairs, A |-> <<>>, b |-> <<>>,
               integral |-> TRUE, trans |-> <<>>]}
        ELSE {[state |-> IF sol.raised = "" THEN "returned" ELSE sol.raised,
               pairs |-> pairs, A |-> A, b |-> b,
               integral |-> sol.integral,
               trans |-> IF sol.raised = "" /\ sol.integral
                         THEN <<0>> \o cumsum(sol.x) ELSE <<>>]
                 : sol \in lstsq(A, b, n - 1)}

AlignL2 ==
    /\ l2_out.state = "not called"
    /\ \E out \in align_l2(l2_n, l2_gap, l2_t) : l2_out' = out
    /\ UNCHANGED <<l2_n, l2_gap, l2_t>>
    /\ UNCHANGED <<cleanVars, decVars, winVars, appVars, viewerVars, settingsVars, formatVars, ctfVars, occVars, procVars, tableVars, rbfVars, benchVars, avgVars, zoomVars, tipVars>>

\* the true positions of n frames: frame 0 at 0
Positions(n) == {t \in [1..n -> 0..MaxShift] : t[1] = 0}

L2Init ==
    /\ l2_n \in 1..MaxFrames
    /\ l2_gap \in 1..MaxGap
    /\ l2_t \in Positions(l2_n)
    /\ l2_out = [state |-> "not called", pairs |-> <<>>, A |-> <<>>, b |-> <<>>,
                 integral |-> TRUE, trans |-> <<>>]

InitL2 == L2Init /\ CleanIdle /\ DecIdle /\ WinIdle /\ AppIdle /\ ViewerIdle /\ SettingsIdle /\ FormatIdle /\ CtfIdle /\ OccIdle /\ ProcIdle /\ TableIdle /\ RbfIdle /\ BenchIdle /\ AvgIdle /\ ZoomIdle /\ TipIdle

NextL2 == AlignL2

SpecL2 == InitL2 /\ [][NextL2]_vars

\* C4 (as claimed): for any frame count n >= 2 and the configured gap, when
\* every measured pairwise shift equals t[j] - t[i], solving A x = b and
\* cumulatively summing x returns exactly t.
C4_L2ReturnsTrueTranslations ==
    (l2_out.state # "not called" /\ l2_n >= 2) =>
        /\ l2_out.state = "returned"
        /\ l2_out.integral
        /\ l2_out.trans = l2_t

-----------------------------------------------------------------------------
(* align_frames.py: initialize and process, on the root process of a run   *)
(* without a selection file                                                *)

\* Bounds of the inputs
MaxMovieFrames == 2
\* the pixel size a parameter file holds
ParamFileApix == 3
\* align_frames.py:665   gap=5
DefaultGap == 5

\* the movie files of a run
FileIds == {1, 2}

\* a requeue that skips the validity check
requeue_all_finished(todo, fin, valid) == todo \o fin

\* for filename in param['finished']: if not ndimage_file.valid_image(filename): files.append(filename)
requeue_corrupt(todo, fin, valid) == todo \o SelectSeq(fin, LAMBDA f : f \notin valid)

\* spider_params.read(param['param_file'], param): the pixel size of the file
spider_params_read(a) == ParamFileApix

\* if param['bin_factor'] > 1.0 and param['param_file'] == "" and param['apix'] > 0:
\*     param['apix'] *= float(param['bin_factor'])
scaled_apix(a, bin, pfile) == IF bin > 1 /\ pfile = "" /\ a > 0 THEN a * bin ELSE a

\* the finished files that fail the validity check
corrupt(fin, valid) == Range(fin) \ valid

\* ndimage_file.count_images(files[0]): whether the frames of the file can be
\* counted; a file that failed the validity check may or may not be countable
count_images(f, fin, valid) == IF f \in corrupt(fin, valid) THEN {TRUE, FALSE} ELSE {TRUE}

Initialize ==
    /\ app_pc = "start"
    /\ LET n == Len(files)
           requeued == requeue_corrupt(files, finished, valid_images)
       IN  /\ files' = requeued
           /\ warned' = IF Len(requeued) > n THEN Append(warned, Len(requeued) - n)
                        ELSE warned
           /\ IF Len(requeued) = 0
              THEN /\ app_pc' = "initialized"              \* if len(files) == 0: return
                   /\ UNCHANGED <<param_apix, apix_in>>
              ELSE \E counted \in count_images(requeued[1], finished, valid_images) :
                     IF ~counted
                     THEN /\ app_pc' = "IOError"
                          /\ UNCHANGED <<param_apix, apix_in>>
                     ELSE LET a == IF param_file # "" THEN spider_params_read(param_apix)
                                   ELSE param_apix
                          IN  /\ apix_in' = a
                              /\ param_apix' = scaled_apix(a, bin_factor, param_file)
                              /\ app_pc' = "initialized"
    /\ UNCHANGED <<files_in, finished, valid_images, bin_factor, param_file, benchmark,
                   mode, param_gap, translation_file, results, written, coords>>
    /\ UNCHANGED <<cleanVars, decVars, winVars, l2Vars, viewerVars, settingsVars, formatVars, ctfVars, occVars, procVars, tableVars, rbfVars, benchVars, avgVars, zoomVars, tipVars>>

\* align_sequential on noise-free frames: every frame's shift against the
\* running reference is its true position
align_sequential(n, t) ==
    [state |-> "returned", integral |-> TRUE, len |-> n, trans |-> t, est |-> t]

\* trans *= extra['bin_factor']
scale_trans(trans, bin) == [k \in 1..Len(trans) |-> trans[k] * bin]

\* align_in_memory: the outcomes for a movie of n frames at the positions t
align_in_memory(n, t, md, gp, bin) ==
    LET aligned == IF md = 0 THEN {align_sequential(n, t)}
                   ELSE {[state |-> o.state, integral |-> o.integral, len |-> n,
                          trans |-> o.trans, est |-> o.trans] : o \in align_l2(n, gp, t)}
    IN  {IF o.state = "returned"
         THEN [o EXCEPT !.trans = scale_trans(o.trans, bin)]
         ELSE [o EXCEPT !.len = 0] : o \in aligned}

\* benchmark_in_memory: sequential, L2 and mean displacement on the same
\* frames, then the 1D power spectra plot (which fails on the None that
\* write_perdiogram returns without a diagnostic file, unless plotting is
\* disabled); returns the empty list
benchmark_in_memory(n, t, gp) ==
    UNION {IF o.state # "returned"
           THEN {[state |-> o.state, integral |-> TRUE, len |-> 0, trans |-> <<>>,
                  est |-> <<>>]}
           ELSE {[state |-> "returned", integral |-> TRUE, len |-> 0, trans |-> <<>>,
                  est |-> <<>>],
                 [state |-> "AttributeError", integral |-> TRUE, len |-> 0, trans |-> <<>>,
                  est |-> <<>>]}
             : o \in align_l2(n, gp, t)}

\* write_average, then write_coordinates
outputs_of(f, c, a, tfile) ==
    IF c.state = "returned" /\ c.len > 0                \* if len(coords) > 0
    THEN {[file |-> f, kind |-> "average", apix |-> a]}
         \cup (IF tfile # "" THEN {[file |-> f, kind |-> "translations", apix |-> 0]}
               ELSE {})
    ELSE {}

\* reading the frames of a requeued corrupt file may fail
unreadable(f, fin, valid) ==
    IF f \in corrupt(fin, valid)
    THEN {[state |-> "IOError", integral |-> TRUE, len |-> 0, trans |-> <<>>, est |-> <<>>]}
    ELSE {}

\* process(filename) for a movie of n frames at the true positions t, with
\* the default crop and no diagnostic file
Process(f) ==
    /\ app_pc = "initialized"
    /\ f \in Range(files)
    /\ f \notin {r.file : r \in results}
    /\ \E n \in 1..MaxMovieFrames : \E t \in Positions(n) :
         \E c \in (IF benchmark THEN benchmark_in_memory(n, t, param_gap)
                   ELSE align_in_memory(n, t, mode, param_gap, bin_factor))
                  \cup unreadable(f, finished, valid_images) :
            /\ coords' = [state |-> c.state, integral |-> c.integral, trans |-> c.trans,
                          estimated |-> c.est]
            /\ results' = results \cup {[file |-> f, frames |-> n, state |-> c.state, len |-> c.len]}
            /\ written' = written \cup outputs_of(f, c, param_apix, translation_file)
    /\ UNCHANGED <<files, files_in, finished, valid_images, warned, param_apix, apix_in,
                   bin_factor, param_file, benchmark, mode, param_gap, translation_file,
                   app_pc>>
    /\ UNCHANGED <<cleanVars, decVars, winVars, l2Vars, viewerVars, settingsVars, formatVars, ctfVars, occVars, procVars, tableVars, rbfVars, benchVars, avgVars, zoomVars, tipVars>>

\* The finished files of an earlier run and the files still to do are
\* disjoint parts of the input list.
AppInit ==
    /\ \E todo \in SUBSET FileIds : \E fin \in SUBSET (FileIds \ todo) :
          /\ files = SortedSeq(todo)
          /\ finished = SortedSeq(fin)
          /\ valid_images \in SUBSET fin
    /\ files_in = files
    /\ warned = <<>>
    /\ param_apix \in {0, 1}
    /\ apix_in = param_apix
    /\ bin_factor \in {0, 1, 2}
    /\ param_file \in {"", "params.spi"}
    /\ benchmark \in BOOLEAN
    /\ mode \in {0, 1}
    /\ param_gap \in {1, DefaultGap}
    /\ translation_file \in {"", "trans.spi"}
    /\ results = {}
    /\ written = {}
    /\ coords = [state |-> "not called", integral |-> TRUE, trans |-> <<>>, estimated |-> <<>>]
    /\ app_pc = "start"

InitAlign == AppInit /\ CleanIdle /\ DecIdle /\ WinIdle /\ L2Idle /\ ViewerIdle /\ SettingsIdle /\ FormatIdle /\ CtfIdle /\ OccIdle /\ ProcIdle /\ TableIdle /\ RbfIdle /\ BenchIdle /\ AvgIdle /\ ZoomIdle /\ TipIdle

NextAlign == Initialize \/ \E f \in FileIds : Process(f)

SpecAlign == InitAlign /\ [][NextAlign]_vars

Count(seq, f) == Cardinality({k \in 1..Len(seq) : seq[k] = f})

AverageWritten(f) == \E w \in written : w.file = f /\ w.kind = "average"
TranslationsWritten(f) == \E w \in written : w.file = f /\ w.kind = "translations"

\* C7: process writes the average (and, with a translation file configured,
\* the translation table) iff the alignment produced a non-empty translation
\* list; a non-benchmark run on a readable stack of at least one frame always
\* writes the average, and a benchmark run never writes anything.
C7_AverageIffTranslations ==
    \A r \in results :
        /\ AverageWritten(r.file) <=> (r.state = "returned" /\ r.len > 0)
        /\ TranslationsWritten(r.file) <=> (AverageWritten(r.file) /\ translation_file # "")
        /\ (~benchmark /\ r.frames >= 1 /\ r.state # "IOError") => AverageWritten(r.file)
        /\ benchmark => ~AverageWritten(r.file) /\ ~TranslationsWritten(r.file)

\* C8: the pixel size in the header of every average written equals the input
\* pixel size, for every bin_factor, with or without a parameter file.
C8_HeaderApixIsInputApix ==
    \A w \in written : w.kind = "average" => w.apix = apix_in

-----------------------------------------------------------------------------
(* core/gui/ImageViewer.py: MainWindow, file intake and paging             *)

\* Bounds of the inputs
MaxImages == 2
\* the maximum of the page spin box before the first page load
PageSpinMaximum == 2
\* the maximum of the image count spin box
CountSpinMaximum == 2

\* A path is a one-element tuple holding a name: the file k has the absolute
\* name k and the relative name -k.
ViewerFileIds == {1, 2, 3}
AbsPaths == {<<k>> : k \in ViewerFileIds}
Paths == AbsPaths \cup {<<-1>>}
\* single files, a file twice, a relative and an absolute name of one file,
\* two files in and out of order, an image with a file that is none
Batches == {<<p>> : p \in Paths}
           \cup {<<<<1>>, <<1>>>>, <<<<-1>>, <<1>>>>, <<<<1>>, <<2>>>>, <<<<2>>, <<-1>>>>,
                 <<<<2>>, <<3>>>>, <<<<3>>, <<1>>>>}
\* the longest list of open files considered
MaxOpenFiles == Cardinality(ViewerFileIds) - 1

\* os.path.abspath
abspath(p) == IF p[1] < 0 THEN <<-p[1]>> ELSE p

\* sorted(list): the ascending arrangement, duplicates kept
RECURSIVE sorted(_)
sorted(seq) ==
    IF seq = <<>> THEN <<>>
    ELSE LET least == CHOOSE k \in 1..Len(seq) : \A j \in 1..Len(seq) : seq[k][1] <= seq[j][1]
         IN  <<seq[least]>> \o sorted(SubSeq(seq, 1, least - 1) \o SubSeq(seq, least + 1, Len(seq)))

\* Python's seq[start:stop]
slice_bound(i, n) == IF i < 0 THEN (IF n + i < 0 THEN 0 ELSE n + i)
                     ELSE (IF i > n THEN n ELSE i)

PySlice(seq, start, stop) ==
    LET lo == slice_bound(start, Len(seq))
        hi == slice_bound(stop, Len(seq))
    IN  IF lo < hi THEN SubSeq(seq, lo + 1, hi) ELSE <<>>

\* a paging that wraps around the end of the list
imageSubset_wrapping(index, count, avg, fs, fi) ==
    LET items == IF avg THEN fs ELSE fi
        lo == IF Len(items) = 0 THEN 0 ELSE (index * count) % Len(items)
    IN  [index |-> PySlice(items, lo, lo + count), start |-> index * count]

\* MainWindow.imageSubset
imageSubset(index, count, avg, fs, fi) ==
    IF avg THEN [index |-> PySlice(fs, index * count, (index + 1) * count),
                 start |-> index * count]
    ELSE [index |-> PySlice(fi, index * count, (index + 1) * count),
          start |-> index * count]

\* MainWindow.imageTotal
imageTotal(avg, fs, fi) == IF avg THEN Len(fs) ELSE Len(fi)

\* QSpinBox.setValue: the value is kept within [minimum, maximum]
setValue(sb, v) ==
    [sb EXCEPT !.value = IF v < sb.minimum THEN sb.minimum
                         ELSE IF v > sb.maximum THEN sb.maximum ELSE v]

\* QSpinBox.setMaximum: the minimum and the value are lowered to fit
setMaximum(sb, m) ==
    [minimum |-> IF sb.minimum > m THEN m ELSE sb.minimum,
     maximum |-> m,
     value |-> IF sb.value > m THEN m ELSE sb.value]

\* numpy.ceil(float(a)/b)
ceil_div(a, b) == (a + b - 1) \div b

\* on_loadImagesPushButton_clicked on the open files fs, the index fi and the
\* widgets ui = [page, count, shown, fwd, bwd]; one entry is displayed for
\* every entry of the page
on_loadImagesPushButton_clicked(fs, fi, avg, ui) ==
    IF Len(fs) = 0 THEN [ui |-> ui, trace |-> NoLoad]
    ELSE
    LET first == imageSubset(ui.page.value - 1, ui.count.value, avg, fs, fi)
        reset == Len(first.index) = 0
        page1 == IF reset THEN setValue(ui.page, 0) ELSE ui.page
        count1 == IF reset THEN setValue(ui.count, 1) ELSE ui.count
        sub == IF reset THEN imageSubset(0, 1, avg, fs, fi) ELSE first
        batch_count == ceil_div(imageTotal(avg, fs, fi), count1.value)
        page2 == setMaximum(page1, batch_count)
    IN  [ui |-> [page |-> page2, count |-> count1, shown |-> sub.index,
                 fwd |-> page2.value < batch_count, bwd |-> page2.value > 0],
         trace |-> [ran |-> TRUE, reset |-> reset,
                    request |-> <<ui.page.value - 1, ui.count.value>>,
                    first |-> first.index, average |-> avg]]

Widgets == [page |-> pageSpinBox, count |-> imageCountSpinBox, shown |-> imageListModel,
            fwd |-> actionForward, bwd |-> actionBackward]

SetWidgets(ui) ==
    /\ pageSpinBox' = ui.page
    /\ imageCountSpinBox' = ui.count
    /\ imageListModel' = ui.shown
    /\ actionForward' = ui.fwd
    /\ actionBackward' = ui.bwd

Called(op, batch, error, load) == [op |-> op, batch |-> batch, error |-> error, load |-> load]

\* newfiles = sorted([f for f in files if f not in fileset]), files made absolute
new_files(batch, fs) ==
    sorted(SelectSeq([k \in 1..Len(batch) |-> abspath(batch[k])],
                     LAMBDA f : f \notin Range(fs)))

\* an intake that takes every file for an image
non_images_none(newfiles, rd) == <<>>

\* imgfiles = [f for f in newfiles if not ndimage_file.is_readable(f)]
non_images(newfiles, rd) == SelectSeq(newfiles, LAMBDA f : f \notin rd)

RECURSIVE file_rows(_, _, _)
file_rows(newfiles, index, cnt) ==
    IF newfiles = <<>> THEN <<>>
    ELSE [i \in 1..cnt[Head(newfiles)] |-> <<index, i - 1, 0>>]
         \o file_rows(Tail(newfiles), index + 1, cnt)

\* MainWindow.updateFileIndex
updateFileIndex(fi, fs, newfiles, cnt) == fi \o file_rows(newfiles, Len(fs), cnt)

\* MainWindow.openImageFiles
OpenImageFiles(batch) ==
    /\ last_call.op # "idle"
    /\ \/ non_images(new_files(batch, self_files), readable) # <<>>
       \/ Len(self_files) + Len(new_files(batch, self_files)) <= MaxOpenFiles
    /\ LET newfiles == new_files(batch, self_files)
           imgfiles == non_images(newfiles, readable)
       IN  IF Len(imgfiles) > 0
           THEN /\ last_call' = Called("open", batch, TRUE, NoLoad)   \* error message, return
                /\ UNCHANGED <<self_files, file_index, windowTitle, pageSpinBox,
                               imageCountSpinBox, imageListModel, actionForward,
                               actionBackward>>
           ELSE LET fi == updateFileIndex(file_index, self_files, newfiles, image_count)
                    fs == self_files \o newfiles
                    ld == on_loadImagesPushButton_clicked(fs, fi, average, Widgets)
                IN  /\ file_index' = fi
                    /\ self_files' = fs
                    /\ windowTitle' = [kind |-> "count", files |-> Len(fs), images |-> Len(fi)]
                    /\ SetWidgets(ld.ui)
                    /\ last_call' = Called("open", batch, FALSE, ld.trace)
    /\ UNCHANGED <<average, readable, image_count>>
    /\ UNCHANGED <<cleanVars, decVars, winVars, l2Vars, appVars, settingsVars, formatVars, ctfVars, occVars, procVars, tableVars, rbfVars, benchVars, avgVars, zoomVars, tipVars>>

\* the user clicks the load button
LoadImages ==
    /\ last_call.op # "idle"
    /\ LET ld == on_loadImagesPushButton_clicked(self_files, file_index, average, Widgets)
       IN  /\ SetWidgets(ld.ui)
           /\ last_call' = Called("load", <<>>, FALSE, ld.trace)
    /\ UNCHANGED <<self_files, file_index, windowTitle, average, readable, image_count>>
    /\ UNCHANGED <<cleanVars, decVars, winVars, l2Vars, appVars, settingsVars, formatVars, ctfVars, occVars, procVars, tableVars, rbfVars, benchVars, avgVars, zoomVars, tipVars>>

\* on_actionForward_triggered / on_actionBackward_triggered, step = 1 / -1
Turn(op, step) ==
    LET ui == [Widgets EXCEPT !.page = setValue(pageSpinBox, pageSpinBox.value + step)]
        ld == on_loadImagesPushButton_clicked(self_files, file_index, average, ui)
    IN  /\ SetWidgets(ld.ui)
        /\ last_call' = Called(op, <<>>, FALSE, ld.trace)
        /\ UNCHANGED <<self_files, file_index, windowTitle, average, readable, image_count>>
        /\ UNCHANGED <<cleanVars, decVars, winVars, l2Vars, appVars, settingsVars, formatVars, ctfVars, occVars, procVars, tableVars, rbfVars, benchVars, avgVars, zoomVars, tipVars>>

Forward == actionForward /\ Turn("forward", 1)

Backward == actionBackward /\ Turn("backward", -1)

\* the user types a page number (the valueChanged handler is commented out)
SetPage(v) ==
    /\ last_call.op # "idle"
    /\ v \in pageSpinBox.minimum..pageSpinBox.maximum
    /\ v # pageSpinBox.value
    /\ pageSpinBox' = setValue(pageSpinBox, v)
    /\ last_call' = Called("edit", <<>>, FALSE, NoLoad)
    /\ UNCHANGED <<self_files, file_index, imageCountSpinBox, average, imageListModel,
                   windowTitle, actionForward, actionBackward, readable, image_count>>
    /\ UNCHANGED <<cleanVars, decVars, winVars, l2Vars, appVars, settingsVars, formatVars, ctfVars, occVars, procVars, tableVars, rbfVars, benchVars, avgVars, zoomVars, tipVars>>

\* the user types a number of images per page
SetImageCount(v) ==
    /\ last_call.op # "idle"
    /\ v \in imageCountSpinBox.minimum..imageCountSpinBox.maximum
    /\ v # imageCountSpinBox.value
    /\ imageCountSpinBox' = setValue(imageCountSpinBox, v)
    /\ last_call' = Called("edit", <<>>, FALSE, NoLoad)
    /\ UNCHANGED <<self_files, file_index, pageSpinBox, average, imageListModel,
                   windowTitle, actionForward, actionBackward, readable, image_count>>
    /\ UNCHANGED <<cleanVars, decVars, winVars, l2Vars, appVars, settingsVars, formatVars, ctfVars, occVars, procVars, tableVars, rbfVars, benchVars, avgVars, zoomVars, tipVars>>

\* the user switches the advanced setting "average"
ToggleAverage ==
    /\ last_call.op # "idle"
    /\ average' = ~average
    /\ last_call' = Called("edit", <<>>, FALSE, NoLoad)
    /\ UNCHANGED <<self_files, file_index, pageSpinBox, imageCountSpinBox, imageListModel,
                   windowTitle, actionForward, actionBackward, readable, image_count>>
    /\ UNCHANGED <<cleanVars, decVars, winVars, l2Vars, appVars, settingsVars, formatVars, ctfVars, occVars, procVars, tableVars, rbfVars, benchVars, avgVars, zoomVars, tipVars>>

\* MainWindow.__init__; the minimum of the two spin boxes is the form's, 0 or 1
ViewerInit ==
    /\ self_files = <<>>
    /\ file_index = <<>>
    /\ \E lo \in {0, 1} :
          pageSpinBox = [value |-> lo, minimum |-> lo, maximum |-> PageSpinMaximum]
    /\ \E lo \in {0, 1} :
          imageCountSpinBox = [value |-> lo, minimum |-> lo, maximum |-> CountSpinMaximum]
    /\ average = FALSE
    /\ imageListModel = <<>>
    /\ windowTitle = [kind |-> "form", files |-> 0, images |-> 0]
    /\ actionForward = FALSE
    /\ actionBackward = FALSE
    /\ readable = AbsPaths \ {<<3>>}
    /\ \E n \in 1..MaxImages : image_count = [p \in AbsPaths |-> n]
    /\ last_call = Called("init", <<>>, FALSE, NoLoad)

InitViewer == ViewerInit /\ CleanIdle /\ DecIdle /\ WinIdle /\ L2Idle /\ AppIdle /\ SettingsIdle /\ FormatIdle /\ CtfIdle /\ OccIdle /\ ProcIdle /\ TableIdle /\ RbfIdle /\ BenchIdle /\ AvgIdle /\ ZoomIdle /\ TipIdle

NextViewer ==
    \/ \E batch \in Batches : OpenImageFiles(batch)
    \/ LoadImages
    \/ Forward
    \/ Backward
    \/ \E v \in 0..PageSpinMaximum : SetPage(v)
    \/ \E v \in 0..CountSpinMaximum : SetImageCount(v)
    \/ ToggleAverage

SpecViewer == InitViewer /\ [][NextViewer]_vars

\* the list the last page load paged over
PagedItems == IF last_call.load.average THEN self_files ELSE file_index

\* C9: for every page index and page size imageSubset returns only entries of
\* the flat image index (of the file list in average mode); it returns no
\* entry when the requested page lies beyond the available items, and then
\* the page load takes the reset path and displays the first item.
C9_SubsetWithinItemsElseReset ==
    last_call.load.ran =>
        LET ld == last_call.load
        IN  /\ Range(ld.first) \subseteq Range(PagedItems)
            /\ Len(ld.first) <= ld.request[2]
            /\ (ld.request[1] >= 0 /\ ld.request[1] * ld.request[2] >= Len(PagedItems))
                   => ld.first = <<>>
            /\ ld.first = <<>> => ld.reset /\ imageListModel = <<PagedItems[1]>>

C9_Witness ==
    /\ last_call.load.ran
    /\ last_call.load.request[1] >= 1
    /\ last_call.load.request[2] >= 1
    /\ last_call.load.request[1] * last_call.load.request[2] >= Len(PagedItems)
    /\ Len(PagedItems) >= 2
    /\ last_call.load.reset
    /\ imageListModel = <<PagedItems[1]>>

\* C10: when a not-yet-open file of the batch handed to openImageFiles is not
\* a recognized image, the call leaves the open-file list, the flat image
\* index, the window title and the displayed page unchanged, and triggers no
\* page reload.
C10_BadBatchRejectedWholesale ==
    [][(/\ last_call'.op = "open"
        /\ \E k \in 1..Len(last_call'.batch) :
              /\ abspath(last_call'.batch[k]) \notin Range(self_files)
              /\ abspath(last_call'.batch[k]) \notin readable)
       => /\ self_files' = self_files
          /\ file_index' = file_index
          /\ windowTitle' = windowTitle
          /\ imageListModel' = imageListModel
          /\ pageSpinBox' = pageSpinBox
          /\ imageCountSpinBox' = imageCountSpinBox
          /\ ~last_call'.load.ran]_vars

C10_Witness ==
    /\ last_call.op = "open"
    /\ last_call.error
    /\ \E k \in 1..Len(last_call.batch) :
          /\ abspath(last_call.batch[k]) \notin Range(self_files)
          /\ abspath(last_call.batch[k]) \in readable
    /\ \E k \in 1..Len(last_call.batch) :
          /\ abspath(last_call.batch[k]) \notin Range(self_files)
          /\ abspath(last_call.batch[k]) \notin readable
    /\ imageListModel # <<>>

-----------------------------------------------------------------------------
(* core/gui/ImageViewer.py: MainWindow, settings on close and construction *)

\* Bound: the windows constructed one after another
MaxSessions == 2

WindowSizes == {200, 100}
SliderValues == {0, 1}

\* MainWindow.advancedSettings: the values a new window starts with
advancedSettings(slider) ==
    [average |-> FALSE, show_label |-> FALSE, window |-> 200, contrast |-> slider]

\* MainWindow.getSettings: no settings object without an ini file
getSettings(ini, store) == IF ini = "" THEN "None" ELSE "QSettings"

\* MainWindow.saveReadOnly: the read-only settings take their widget's value
saveReadOnly(adv, slider) == [adv EXCEPT !.contrast = slider]

\* MainWindow.saveSettings: what the settings file holds afterwards
saveSettings(ini, store, adv) ==
    IF getSettings(ini, store) = "None" THEN store
    ELSE [saved |-> TRUE, Advanced |-> adv]

\* MainWindow.loadSettings on a new window: the advanced settings afterwards;
\* restoreState of the settings tree may or may not restore ("does not work")
loadSettings(ini, store, adv) ==
    IF getSettings(ini, store) = "None" \/ ~store.saved THEN {adv}
    ELSE {adv, store.Advanced}

\* the user edits an advanced setting or moves the contrast slider
EditSettings ==
    /\ win_state \in {"open", "restored"}
    /\ \/ /\ \E v \in BOOLEAN \X BOOLEAN \X WindowSizes :
               advanced_settings' = [advanced_settings EXCEPT !.average = v[1],
                                        !.show_label = v[2], !.window = v[3]]
          /\ advanced_settings' # advanced_settings
          /\ UNCHANGED contrastSlider
       \/ /\ \E v \in SliderValues \ {contrastSlider} : contrastSlider' = v
          /\ UNCHANGED advanced_settings
    /\ win_state' = "open"
    /\ UNCHANGED <<inifile, settings_store, form_contrast, closed_settings, session>>
    /\ UNCHANGED <<cleanVars, decVars, winVars, l2Vars, appVars, viewerVars, formatVars, ctfVars, occVars, procVars, tableVars, rbfVars, benchVars, avgVars, zoomVars, tipVars>>

\* MainWindow.closeEvent
CloseEvent ==
    /\ win_state \in {"open", "restored"}
    /\ LET adv == saveReadOnly(advanced_settings, contrastSlider)
       IN  /\ advanced_settings' = adv
           /\ closed_settings' = adv
           /\ settings_store' = saveSettings(inifile, settings_store, adv)
    /\ win_state' = "closed"
    /\ UNCHANGED <<inifile, contrastSlider, form_contrast, session>>
    /\ UNCHANGED <<cleanVars, decVars, winVars, l2Vars, appVars, viewerVars, formatVars, ctfVars, occVars, procVars, tableVars, rbfVars, benchVars, avgVars, zoomVars, tipVars>>

\* MainWindow.__init__ of the next window
Construct ==
    /\ win_state = "closed"
    /\ session < MaxSessions
    /\ inifile' = ""
    /\ \E adv \in loadSettings("", settings_store, advancedSettings(form_contrast)) :
          /\ advanced_settings' = adv
          /\ contrastSlider' = adv.contrast            \* loadReadOnly, or the form's value
    /\ win_state' = "restored"
    /\ session' = session + 1
    /\ UNCHANGED <<settings_store, form_contrast, closed_settings>>
    /\ UNCHANGED <<cleanVars, decVars, winVars, l2Vars, appVars, viewerVars, formatVars, ctfVars, occVars, procVars, tableVars, rbfVars, benchVars, avgVars, zoomVars, tipVars>>

\* the first window: MainWindow.__init__ with no settings file written yet
SettingsInit ==
    /\ inifile = ""
    /\ settings_store = [saved |-> FALSE, Advanced |-> <<>>]
    /\ form_contrast \in SliderValues
    /\ advanced_settings = advancedSettings(form_contrast)
    /\ contrastSlider = form_contrast
    /\ closed_settings = advanced_settings
    /\ win_state = "open"
    /\ session = 1

InitSettings == SettingsInit /\ CleanIdle /\ DecIdle /\ WinIdle /\ L2Idle /\ AppIdle /\ ViewerIdle /\ FormatIdle /\ CtfIdle /\ OccIdle /\ ProcIdle /\ TableIdle /\ RbfIdle /\ BenchIdle /\ AvgIdle /\ ZoomIdle /\ TipIdle

NextSettings == EditSettings \/ CloseEvent \/ Construct

SpecSettings == InitSettings /\ [][NextSettings]_vars

\* C11: closing the window stores the advanced settings in the settings
\* file, and a window constructed afterwards has the advanced-setting values
\* that were in effect at the close.
C11_SettingsSurviveClose ==
    /\ win_state = "closed" =>
          /\ settings_store.saved
          /\ settings_store.Advanced = closed_settings
    /\ win_state = "restored" => advanced_settings = closed_settings

-----------------------------------------------------------------------------
(* core/image/formats/eman_format.py: the EMAN2/Sparx format adapter       *)

\* Bound: the images in a stack, and the indices tried around it
MaxStack == 2

\* an image is the sequence of its rows; a row is one pixel value
Images == {<<0, 1>>, <<1, 1>>}
ImageTypes == {"MRC", "SPIDER", "SINGLE_SPIDER", "UNKNOWN"}
\* the pixel size of a header argument; 0 in a file is the library's own value
HeaderApix == {0, 2}

\* img.process_inplace("xform.flip", {"axis": "y"})
flip(img) == Reverse(img)

\* write_image that keeps a SPIDER stack a stack
write_type_stack(given, ext, has_index) ==
    LET t == IF given = "None" THEN ext ELSE given
    IN  IF t = "UNKNOWN" THEN "SPIDER" ELSE t

\* write_image: the type the file is written as
write_type(given, ext, has_index) ==
    LET t0 == IF given = "None" THEN ext ELSE given          \* if type is None: by extension
        t1 == IF t0 = "UNKNOWN" THEN "SPIDER" ELSE t0
    IN  IF ~has_index /\ t1 = "SPIDER" THEN "SINGLE_SPIDER" ELSE t1

\* write_image: the image handed to write_image_c
write_pixels(given, ext, img) ==
    IF (IF given = "None" THEN ext ELSE given) = "MRC" THEN flip(img) ELSE img

\* the images a file of the given type holds before the write
stack_of(d, type) == IF d.exists /\ d.type = type THEN d.images ELSE <<>>

put(stack, index, img) ==
    IF index = Len(stack) THEN Append(stack, img) ELSE [stack EXCEPT ![index + 1] = img]

\* the type argument and the type of the extension: without a type argument
\* every extension, with one an extension of an image format and one of none
TypeArgs == {<<"None", e>> : e \in ImageTypes}
            \cup {<<t, e>> : t \in ImageTypes, e \in {"MRC", "UNKNOWN"}}

\* write_image(filename, img, index, header, type); indices keep the stack
\* contiguous and a single-image SPIDER file is written at index 0
WriteImage ==
    /\ fmt_out.op # "idle"
    /\ \E has_index \in BOOLEAN, te \in TypeArgs :
       \E i \in IF has_index THEN 0..MaxStack - 1 ELSE {0} :
          LET type == write_type(te[1], te[2], has_index)
              stack == stack_of(disk, type)
              kept == stack_of([disk EXCEPT !.images = disk.source], type)
          IN  /\ i <= Len(stack)
              /\ type = "SINGLE_SPIDER" => i = 0
              /\ \E img \in Images, apix \in HeaderApix :
                    /\ disk' = [exists |-> TRUE, type |-> type,
                                images |-> put(stack, i, write_pixels(te[1], te[2], img)),
                                source |-> put(kept, i, img),
                                apix |-> IF library.stamps THEN apix ELSE 0,
                                stamped |-> apix,
                                marked |-> (type = "MRC" /\ library.marks),
                                patched |-> (type = "SINGLE_SPIDER")]  \* f.seek(26*4); f.write(0.0)
                    /\ fmt_out' = FormatCall("write",
                                       [has_index |-> has_index, index |-> i, type |-> te[1],
                                        ext |-> te[2], img |-> img, apix |-> apix],
                                       "written", type, img, apix, <<>>)
    /\ UNCHANGED library
    /\ UNCHANGED <<cleanVars, decVars, winVars, l2Vars, appVars, viewerVars, settingsVars, ctfVars, occVars, procVars, tableVars, rbfVars, benchVars, avgVars, zoomVars, tipVars>>

\* read_image_c and the flip of read_image: the image at a position
read_pixels(d, pos) ==
    IF d.type = "MRC" /\ d.marked THEN flip(d.images[pos + 1]) ELSE d.images[pos + 1]

\* read_image(filename, index)
read_image(d, has_index, index) ==
    LET pos == IF has_index THEN index ELSE 0
    IN  IF ~d.exists THEN [state |-> "IOError: format", img |-> <<>>]
        ELSE IF pos < 0 \/ pos >= Len(d.images) THEN [state |-> "raised", img |-> <<>>]
        ELSE [state |-> "returned", img |-> read_pixels(d, pos)]

ReadImage ==
    /\ fmt_out.op # "idle"
    /\ \E has_index \in BOOLEAN, index \in 0..MaxStack :
          /\ ~has_index => index = 0
          /\ LET r == read_image(disk, has_index, index)
             IN  fmt_out' = FormatCall("read", [NoArgs EXCEPT !.has_index = has_index,
                                                               !.index = index],
                                       r.state, disk.type, r.img, 0, <<>>)
    /\ UNCHANGED <<disk, library>>
    /\ UNCHANGED <<cleanVars, decVars, winVars, l2Vars, appVars, viewerVars, settingsVars, ctfVars, occVars, procVars, tableVars, rbfVars, benchVars, avgVars, zoomVars, tipVars>>

\* read_header(filename): header[0].apix = emdata.get_attr('apix_x')
ReadHeader ==
    /\ fmt_out.op # "idle"
    /\ fmt_out' = IF disk.exists
                  THEN FormatCall("header", NoArgs, "returned", disk.type, <<>>, disk.apix, <<>>)
                  ELSE FormatCall("header", NoArgs, "IOError: format", "", <<>>, 0, <<>>)
    /\ UNCHANGED <<disk, library>>
    /\ UNCHANGED <<cleanVars, decVars, winVars, l2Vars, appVars, viewerVars, settingsVars, ctfVars, occVars, procVars, tableVars, rbfVars, benchVars, avgVars, zoomVars, tipVars>>

\* an iteration that starts one image late
iter_positions_late(index, count) == [k \in 1..(count - index - 1) |-> index + k]

\* for i in xrange(index, count)
iter_positions(index, count) == [k \in 1..(count - index) |-> index + k - 1]

\* iter_images(filename, index): the outcomes; what the library reads at a
\* negative position is its choice (it fails, or it takes the first image)
iter_images(d, has_index, index) ==
    LET first == IF has_index THEN index ELSE 0               \* if index is None: index = 0
        count == Len(d.images)
        at(pos) == [pos |-> pos, img |-> read_pixels(d, IF pos < 0 THEN 0 ELSE pos)]
        reads == iter_positions(first, count)
    IN  IF ~d.exists THEN {[state |-> "IOError: format", yielded |-> <<>>]}
        ELSE IF first >= count THEN {[state |-> "IOError: index", yielded |-> <<>>]}
        ELSE {[state |-> "returned", yielded |-> [k \in 1..Len(reads) |-> at(reads[k])]]}
             \cup (IF first < 0 THEN {[state |-> "raised", yielded |-> <<>>]} ELSE {})

IterImages ==
    /\ fmt_out.op # "idle"
    /\ \E has_index \in BOOLEAN, index \in (-1)..(MaxStack + 1) :
          /\ ~has_index => index = 0
          /\ \E r \in iter_images(disk, has_index, index) :
                fmt_out' = FormatCall("iter", [NoArgs EXCEPT !.has_index = has_index,
                                                              !.index = index],
                                      r.state, disk.type, <<>>, 0, r.yielded)
    /\ UNCHANGED <<disk, library>>
    /\ UNCHANGED <<cleanVars, decVars, winVars, l2Vars, appVars, viewerVars, settingsVars, ctfVars, occVars, procVars, tableVars, rbfVars, benchVars, avgVars, zoomVars, tipVars>>

FormatInit ==
    /\ disk = NoFile
    /\ fmt_out = FormatCall("start", NoArgs, "", "", <<>>, 0, <<>>)
    \* whether _update_header hands the pixel size on under the map {'': ''}, and
    \* whether the label the library writes into an MRC file names IMAGIC and SPIDER
    /\ library \in [stamps : BOOLEAN, marks : BOOLEAN]

InitFormat == FormatInit /\ CleanIdle /\ DecIdle /\ WinIdle /\ L2Idle /\ AppIdle /\ ViewerIdle /\ SettingsIdle /\ CtfIdle /\ OccIdle /\ ProcIdle /\ TableIdle /\ RbfIdle /\ BenchIdle /\ AvgIdle /\ ZoomIdle /\ TipIdle

NextFormat == WriteImage \/ ReadImage \/ ReadHeader \/ IterImages

SpecFormat == InitFormat /\ [][NextFormat]_vars


\* the index iter_images starts at
IterStart == IF fmt_out.args.has_index THEN fmt_out.args.index ELSE 0

YieldedPositions == [k \in 1..Len(fmt_out.yielded) |-> fmt_out.yielded[k].pos]

\* C12 as stated: iter_images yields exactly the images at the positions
\* index, ..., count-1, each once and in increasing order (index defaults to
\* 0), and fails with the out-of-range error exactly when index exceeds count.
C12_IterFailsOnlyBeyondCount ==
    (fmt_out.op = "iter" /\ disk.exists) =>
        /\ fmt_out.state = "IOError: index" <=> IterStart > Len(disk.images)
        /\ fmt_out.state # "IOError: index" =>
              YieldedPositions = iter_positions(IterStart, Len(disk.images))

\* C12 amended: for an index that is not negative, iter_images fails with the
\* out-of-range error exactly when index >= count (index = count included), and
\* otherwise yields exactly the images at index, ..., count-1, each once, in
\* increasing order.
C12_IterFailsFromCount ==
    (fmt_out.op = "iter" /\ disk.exists /\ IterStart >= 0) =>
        /\ fmt_out.state = "IOError: index" <=> IterStart >= Len(disk.images)
        /\ IterStart < Len(disk.images) =>
              /\ fmt_out.state = "returned"
              /\ Len(fmt_out.yielded) = Len(disk.images) - IterStart
              /\ \A k \in 1..Len(fmt_out.yielded) :
                    /\ fmt_out.yielded[k].pos = IterStart + k - 1
                    /\ fmt_out.yielded[k].img = read_pixels(disk, IterStart + k - 1)

C12_Witness ==
    /\ fmt_out.op = "iter"
    /\ fmt_out.args.has_index
    /\ fmt_out.args.index = 1
    /\ fmt_out.state = "returned"
    /\ Len(disk.images) >= 2
    /\ fmt_out.yielded[1].pos = 1

\* C13: write_image writes as the given type, else the type of the extension;
\* an unknown type becomes SPIDER stack; a SPIDER stack write without an index
\* becomes a single-image SPIDER write at index 0. The patch at byte offset
\* 104 is applied iff the file was written as single-image SPIDER, never to a
\* stack write with an index nor to another format.
C13_TypeResolutionAndPatch ==
    fmt_out.op = "write" =>
        LET a == fmt_out.args
            named == IF a.type # "None" THEN a.type ELSE a.ext
            wanted == IF named = "UNKNOWN" THEN "SPIDER" ELSE named
        IN  /\ (wanted = "SPIDER" /\ ~a.has_index) =>
                  /\ fmt_out.type = "SINGLE_SPIDER"
                  /\ Len(disk.images) = 1
            /\ ~(wanted = "SPIDER" /\ ~a.has_index) => fmt_out.type = wanted
            /\ disk.type = fmt_out.type
            /\ disk.patched <=> disk.type = "SINGLE_SPIDER"
            /\ (wanted = "SPIDER" /\ a.has_index) => ~disk.patched
            /\ wanted \notin {"SPIDER", "SINGLE_SPIDER"} => ~disk.patched

C13_Witness ==
    /\ fmt_out.op = "write"
    /\ fmt_out.args.type = "None"
    /\ fmt_out.args.ext = "UNKNOWN"
    /\ ~fmt_out.args.has_index
    /\ disk.type = "SINGLE_SPIDER"
    /\ disk.patched

\* C14: for every writable format write_image followed by read_image returns
\* the written pixel values in the written orientation, and a pixel size given
\* in the header argument of the write is what read_header returns.
C14_WriteReadRoundTrip ==
    /\ (fmt_out.op = "read" /\ fmt_out.state = "returned") =>
          fmt_out.img = disk.source[(IF fmt_out.args.has_index THEN fmt_out.args.index ELSE 0) + 1]
    /\ (fmt_out.op = "header" /\ fmt_out.state = "returned" /\ disk.stamped # 0) =>
          fmt_out.apix = disk.stamped


-----------------------------------------------------------------------------
(* estimate2d.py: search_model_2d                                           *)

MaxDefocus == 2

RminCap == 50

AngleCount == 18

\* resolution limits around the cap, defocus limits and steps (floats in the
\* code, in units that make them integers here)
Radii == {10, 60, 70}
Defocus == -1..MaxDefocus
Steps == {1, 2}

\* int(a/b) of two floats, b > 0: truncation towards zero
int_div(a, b) == IF a >= 0 THEN a \div b ELSE -((-a) \div b)

clamp_none(rmin) == rmin

\* if rmin > 50: rmin = 50.0
clamp(rmin) == IF rmin > RminCap THEN RminCap ELSE rmin

\* lines 32-36: order the limits, clamp rmin, raise if rmax > rmin
SearchBegin ==
    /\ search.pc = "idle"
    /\ \E rmin \in Radii, rmax \in Radii, dfmin \in Defocus, dfmax \in Defocus, fstep \in Steps :
          LET r1 == IF rmin < rmax THEN rmax ELSE rmin
              r2 == IF rmin < rmax THEN rmin ELSE rmax
              d1 == IF dfmax < dfmin THEN dfmax ELSE dfmin
              d2 == IF dfmax < dfmin THEN dfmin ELSE dfmax
              r1c == clamp(r1)
          IN  search' = [search EXCEPT
                  !.args = [rmin |-> rmin, rmax |-> rmax, dfmin |-> dfmin, dfmax |-> dfmax,
                            fstep |-> fstep],
                  !.ordered = [rmin |-> r1, rmax |-> r2],
                  !.rmin = r1c, !.rmax = r2, !.dfmin = d1, !.dfmax = d2,
                  !.pc = IF r2 > r1c THEN "ValueError" ELSE "checked"]
    /\ UNCHANGED <<cleanVars, decVars, winVars, l2Vars, appVars, viewerVars, settingsVars, formatVars, occVars, procVars, tableVars, rbfVars, benchVars, avgVars, zoomVars, tipVars>>

\* lines 37-57: rescale, set up the loop limits i1, i2, smooth the spectrum
SearchSmooth ==
    /\ search.pc = "checked"
    /\ search' = [search EXCEPT
          !.smoothed = TRUE,
          !.k = 0,
          !.i = int_div(search.dfmin, search.args.fstep),
          !.j = int_div(search.dfmin, search.args.fstep),
          !.pc = "smoothed"]
    /\ UNCHANGED <<cleanVars, decVars, winVars, l2Vars, appVars, viewerVars, settingsVars, formatVars, occVars, procVars, tableVars, rbfVars, benchVars, avgVars, zoomVars, tipVars>>

\* lines 60-70: one pass of the innermost loop body, then on to the next
\* (k, i, j) in the order of the three nested xrange loops
SearchEvaluate ==
    /\ search.pc \in {"smoothed", "searching"}
    /\ search.k < AngleCount
    /\ LET fstep == search.args.fstep
           i1 == int_div(search.dfmin, fstep)
           i2 == int_div(search.dfmax, fstep)
           last_j == search.j = i2
           last_i == search.i = i2
       IN  search' = [search EXCEPT
               !.df = <<fstep * search.i, fstep * search.j>>,
               !.p = 1,
               !.j = IF last_j THEN i1 ELSE search.j + 1,
               !.i = IF last_j THEN (IF last_i THEN i1 ELSE search.i + 1) ELSE search.i,
               !.k = IF last_j /\ last_i THEN search.k + 1 ELSE search.k,
               !.pc = "searching"]
    /\ UNCHANGED <<cleanVars, decVars, winVars, l2Vars, appVars, viewerVars, settingsVars, formatVars, occVars, procVars, tableVars, rbfVars, benchVars, avgVars, zoomVars, tipVars>>

\* lines 72-78: the simplex refinement from the best grid point, and return
SearchReturn ==
    /\ search.pc = "searching"
    /\ search.k = AngleCount
    /\ search' = [search EXCEPT !.pc = "returned"]
    /\ UNCHANGED <<cleanVars, decVars, winVars, l2Vars, appVars, viewerVars, settingsVars, formatVars, occVars, procVars, tableVars, rbfVars, benchVars, avgVars, zoomVars, tipVars>>

InitCtf == CtfIdle /\ CleanIdle /\ DecIdle /\ WinIdle /\ L2Idle /\ AppIdle /\ ViewerIdle /\ SettingsIdle /\ FormatIdle /\ OccIdle /\ ProcIdle /\ TableIdle /\ RbfIdle /\ BenchIdle /\ AvgIdle /\ ZoomIdle /\ TipIdle

NextCtf == SearchBegin \/ SearchSmooth \/ SearchEvaluate \/ SearchReturn

SpecCtf == InitCtf /\ [][NextCtf]_vars

\* C15: search_model_2d orders its limits so that rmin >= rmax and
\* dfmin <= dfmax, clamps rmin to at most 50, and raises the invalid-parameter
\* error exactly when rmax > rmin then; when it raises, the spectrum has not
\* been smoothed and no candidate has been evaluated.
C15_OrderClampThenRaise ==
    search.pc # "idle" =>
        LET a == search.args
            hi == IF a.rmin >= a.rmax THEN a.rmin ELSE a.rmax
            lo == IF a.rmin >= a.rmax THEN a.rmax ELSE a.rmin
        IN  /\ search.ordered = [rmin |-> hi, rmax |-> lo]
            /\ search.dfmin <= search.dfmax
            /\ {search.dfmin, search.dfmax} = {a.dfmin, a.dfmax}
            /\ search.rmin = (IF hi > 50 THEN 50 ELSE hi)
            /\ search.rmax = lo
            /\ search.pc = "ValueError" <=> search.rmax > search.rmin
            /\ search.pc = "ValueError" => (~search.smoothed /\ search.p = 0)
            /\ search.pc # "ValueError" => lo <= 50

C15_Witness ==
    /\ search.pc = "ValueError"
    /\ search.args.rmin < search.args.rmax
    /\ search.ordered.rmin = search.args.rmax
    /\ search.rmin = 50

\* C16: every defocus candidate the grid search evaluates lies within
\* [dfmin, dfmax] (after ordering), for every dfmin, dfmax and fstep > 0,
\* multiples of fstep or not.
C16_CandidatesWithinLimits ==
    search.pc = "searching" =>
        \A d \in {search.df[1], search.df[2]} : search.dfmin <= d /\ d <= search.dfmax


-----------------------------------------------------------------------------
(* diffclean.py: one_class_classification                                   *)

MaxLevel == 3

MaxDist == 3

Infinity == 1000

\* probabilities 0, 1/MaxLevel, ..., 1 by their numerator
ProbLevels == 0..MaxLevel

\* scipy.stats.chi2.ppf(p, df): 0 at p = 0, infinite at p = 1, and strictly
\* increasing in p in between (and increasing in df)
chi2_ppf(level, df) ==
    IF level = 0 THEN 0 ELSE IF level >= MaxLevel THEN Infinity ELSE level * df

accepts_at_most(d, cut) == d <= cut

\* sel = dist < cut
accepts(d, cut) == d < cut

\* feat = feat[:, :neig]; feat.shape[1]
degrees(neig, ncols) == IF neig < ncols THEN neig ELSE ncols

\* the boolean array sel for given distances
one_class_classification(dist, neig, ncols, prob_reject) ==
    [i \in 1..Len(dist) |-> accepts(dist[i], chi2_ppf(prob_reject, degrees(neig, ncols)))]

\* one call on the same distances with some prob_reject
Classify ==
    /\ occ.calls < 2
    /\ \E prob_reject \in ProbLevels :
          occ' = [occ EXCEPT
              !.calls = occ.calls + 1,
              !.prev_prob = occ.prob_reject,
              !.prev_sel = occ.sel,
              !.prob_reject = prob_reject,
              !.sel = one_class_classification(occ.dist, occ.neig, occ.ncols, prob_reject)]
    /\ UNCHANGED <<cleanVars, decVars, winVars, l2Vars, appVars, viewerVars, settingsVars, formatVars, ctfVars, procVars, tableVars, rbfVars, benchVars, avgVars, zoomVars, tipVars>>

OccInit ==
    \E dist \in [1..3 -> 0..MaxDist], neig \in 1..3, ncols \in 1..2 :
        occ = [dist |-> dist, neig |-> neig, ncols |-> ncols, calls |-> 0, prob_reject |-> 0,
               sel |-> <<>>, prev_prob |-> 0, prev_sel |-> <<>>]

InitClassify == OccInit /\ CleanIdle /\ DecIdle /\ WinIdle /\ L2Idle /\ AppIdle /\ ViewerIdle /\ SettingsIdle /\ FormatIdle /\ CtfIdle /\ ProcIdle /\ TableIdle /\ RbfIdle /\ BenchIdle /\ AvgIdle /\ ZoomIdle /\ TipIdle

NextClassify == Classify

SpecClassify == InitClassify /\ [][NextClassify]_vars

Accepted(sel) == {i \in 1..Len(sel) : sel[i]}

\* C18: one_class_classification accepts exactly the particles whose distance
\* is strictly below the chi-squared cutoff; for the same distances and neig,
\* a higher prob_reject never lowers the cutoff, never removes a particle from
\* the accepted set and never decreases the number of accepted particles.
C18_CutoffMonotone ==
    /\ occ.calls >= 1 =>
          LET df == IF occ.neig < occ.ncols THEN occ.neig ELSE occ.ncols
          IN  \A i \in 1..Len(occ.dist) :
                  occ.sel[i] <=> occ.dist[i] < chi2_ppf(occ.prob_reject, df)
    /\ (occ.calls >= 2 /\ occ.prev_prob <= occ.prob_reject) =>
          /\ Accepted(occ.prev_sel) \subseteq Accepted(occ.sel)
          /\ Cardinality(Accepted(occ.prev_sel)) <= Cardinality(Accepted(occ.sel))

C18_Witness ==
    /\ occ.calls = 2
    /\ occ.prev_prob < occ.prob_reject
    /\ Accepted(occ.prev_sel) # {}
    /\ Accepted(occ.sel) # Accepted(occ.prev_sel)
    /\ \E i \in 1..Len(occ.dist) :
          /\ occ.dist[i] = chi2_ppf(occ.prob_reject, IF occ.neig < occ.ncols THEN occ.neig ELSE occ.ncols)
          /\ ~occ.sel[i]


-----------------------------------------------------------------------------
(* diffclean.py: process, reduce_all, finalize                              *)

ThreadCount == 2

DefaultNeig == 2

Workers == {1, 2}

\* the views of a run: label rows <<micrograph, index in the stack>>
ViewLabel == <<
    << <<1, 0>>, <<2, 0>> >>,
    << <<1, 1>>, <<2, 1>> >>,
    << <<1, 2>> >> >>

\* the Mahalanobis distances the rows of each view's matrix lead to
ViewDist == << <<0, 3>>, <<3, 0>>, <<0>> >>

ViewIds == 1..Len(ViewLabel)

Micrographs == {1, 2}

\* what the program runner hands over: the views to process, and the views
\* it holds as finished
Runs == { [files |-> {1, 2}, finished |-> {}],
          [files |-> {1},    finished |-> {2}],
          [files |-> {1, 2}, finished |-> {2}],
          [files |-> {1, 3}, finished |-> {}] }

IdleWorker == [pc |-> "idle", view |-> 0, threads |-> ThreadCount, data |-> 0, sel |-> <<>>]

\* lines 166-172: a worker takes a view and narrows the thread count
ProcessBegin(w) ==
    /\ proc[w].pc = "idle"
    /\ ~job.finalized
    /\ \E view \in job.files :
          /\ job' = [job EXCEPT !.files = job.files \ {view}]
          /\ proc' = [proc EXCEPT ![w] = [pc |-> "narrowed", view |-> view, threads |-> 1,
                                          data |-> 0, sel |-> <<>>]]
    /\ UNCHANGED <<matrix_cache, sel_by_mic>>
    /\ UNCHANGED <<cleanVars, decVars, winVars, l2Vars, appVars, viewerVars, settingsVars, formatVars, ctfVars, occVars, tableVars, rbfVars, benchVars, avgVars, zoomVars, tipVars>>

\* read_matrix_from_cache(cache_file): the matrix in the file, None without one
read_matrix_from_cache(cache_file, store) ==
    IF cache_file # "" THEN store.holds ELSE 0

\* lines 173-174
ReadCache(w) ==
    /\ proc[w].pc = "narrowed"
    /\ LET data == read_matrix_from_cache(job.cache_file, matrix_cache)
       IN  proc' = [proc EXCEPT ![w].data = data,
                                ![w].pc = IF data = 0 THEN "missed" ELSE "have_data"]
    /\ UNCHANGED <<job, matrix_cache, sel_by_mic>>
    /\ UNCHANGED <<cleanVars, decVars, winVars, l2Vars, appVars, viewerVars, settingsVars, formatVars, ctfVars, occVars, tableVars, rbfVars, benchVars, avgVars, zoomVars, tipVars>>

\* lines 175-176: build the matrix from the view's images (an unreadable
\* stack raises) and write it to the cache
CreateMatrix(w) ==
    /\ proc[w].pc = "missed"
    /\ IF proc[w].view \in job.corrupt
       THEN /\ proc' = [proc EXCEPT ![w].pc = "IOError"]
            /\ UNCHANGED matrix_cache
       ELSE /\ proc' = [proc EXCEPT ![w].data = proc[w].view, ![w].pc = "have_data"]
            /\ matrix_cache' = IF job.cache_file # ""
                               THEN [holds |-> proc[w].view,
                                     writers |-> matrix_cache.writers \cup {w}]
                               ELSE matrix_cache
    /\ UNCHANGED <<job, sel_by_mic>>
    /\ UNCHANGED <<cleanVars, decVars, winVars, l2Vars, appVars, viewerVars, settingsVars, formatVars, ctfVars, occVars, tableVars, rbfVars, benchVars, avgVars, zoomVars, tipVars>>

\* lines 180-181: restore the thread count; assert(data.shape[0] == align.shape[0])
Restore(w) ==
    /\ proc[w].pc = "have_data"
    /\ proc' = [proc EXCEPT
          ![w].threads = ThreadCount,
          ![w].pc = IF Len(ViewDist[proc[w].data]) = Len(ViewLabel[proc[w].view])
                    THEN "restored" ELSE "AssertionError"]
    /\ UNCHANGED <<job, matrix_cache, sel_by_mic>>
    /\ UNCHANGED <<cleanVars, decVars, winVars, l2Vars, appVars, viewerVars, settingsVars, formatVars, ctfVars, occVars, tableVars, rbfVars, benchVars, avgVars, zoomVars, tipVars>>

\* lines 182-240: embedding, classification, the view's table is written
Embed(w) ==
    /\ proc[w].pc = "restored"
    /\ proc' = [proc EXCEPT
          ![w].sel = one_class_classification(ViewDist[proc[w].data], DefaultNeig,
                                              DefaultNeig, job.prob_reject),
          ![w].pc = "returned"]
    /\ job' = [job EXCEPT !.output[proc[w].view] = proc[w].data]
    /\ UNCHANGED <<matrix_cache, sel_by_mic>>
    /\ UNCHANGED <<cleanVars, decVars, winVars, l2Vars, appVars, viewerVars, settingsVars, formatVars, ctfVars, occVars, tableVars, rbfVars, benchVars, avgVars, zoomVars, tipVars>>

\* update_selection_dict for a list label: the selected rows, in order, are
\* appended to the list of their micrograph
RECURSIVE update_selection_dict(_, _, _)
update_selection_dict(by_mic, label, sel) ==
    IF label = <<>> THEN by_mic
    ELSE LET row == Head(label)
             next == IF Head(sel)
                     THEN [by_mic EXCEPT ![row[1]] = Append(by_mic[row[1]], row[2] + 1)]
                     ELSE by_mic
         IN  update_selection_dict(next, Tail(label), Tail(sel))

\* reduce_all on the root, for the value process() returned
ReduceAll(w) ==
    /\ proc[w].pc = "returned"
    /\ sel_by_mic' = update_selection_dict(sel_by_mic, ViewLabel[proc[w].view], proc[w].sel)
    /\ job' = [job EXCEPT !.reduced = job.reduced \cup {proc[w].view}]
    /\ proc' = [proc EXCEPT ![w] = IdleWorker]
    /\ UNCHANGED matrix_cache
    /\ UNCHANGED <<cleanVars, decVars, winVars, l2Vars, appVars, viewerVars, settingsVars, formatVars, ctfVars, occVars, tableVars, rbfVars, benchVars, avgVars, zoomVars, tipVars>>

\* the loop of finalize over the finished views, in their order
RECURSIVE finalize(_, _, _, _)
finalize(by_mic, finished_views, output, prob_reject) ==
    IF finished_views = {} THEN by_mic
    ELSE LET view == CHOOSE v \in finished_views : \A u \in finished_views : v <= u
             rsel == one_class_classification(ViewDist[output[view]], DefaultNeig,
                                              DefaultNeig, prob_reject)
         IN  finalize(update_selection_dict(by_mic, ViewLabel[view], rsel),
                      finished_views \ {view}, output, prob_reject)

Finalize ==
    /\ ~job.finalized
    /\ job.files = {}
    /\ \A w \in Workers : proc[w].pc = "idle"
    /\ sel_by_mic' = finalize(sel_by_mic, job.finished, job.output, job.prob_reject)
    /\ job' = [job EXCEPT !.finalized = TRUE]
    /\ UNCHANGED <<proc, matrix_cache>>
    /\ UNCHANGED <<cleanVars, decVars, winVars, l2Vars, appVars, viewerVars, settingsVars, formatVars, ctfVars, occVars, tableVars, rbfVars, benchVars, avgVars, zoomVars, tipVars>>

ProcInit ==
    /\ \E r \in Runs, cache_file \in {"", "cache"}, prob_reject \in {1, MaxLevel},
          unreadable_views \in {{}, {1}} :
          job = [cache_file |-> cache_file, prob_reject |-> prob_reject, files |-> r.files,
                 finished |-> r.finished, corrupt |-> unreadable_views, reduced |-> {},
                 output |-> [v \in ViewIds |-> v], finalized |-> FALSE]
    /\ proc = [w \in Workers |-> IdleWorker]
    /\ matrix_cache = [holds |-> 0, writers |-> {}]
    /\ sel_by_mic = [mic \in Micrographs |-> <<>>]

InitProcess == ProcInit /\ CleanIdle /\ DecIdle /\ WinIdle /\ L2Idle /\ AppIdle /\ ViewerIdle /\ SettingsIdle /\ FormatIdle /\ CtfIdle /\ OccIdle /\ TableIdle /\ RbfIdle /\ BenchIdle /\ AvgIdle /\ ZoomIdle /\ TipIdle

ProcessView(w) ==
    \/ ProcessBegin(w)
    \/ ReadCache(w)
    \/ CreateMatrix(w)
    \/ Restore(w)
    \/ Embed(w)

NextProcess == (\E w \in Workers : ProcessView(w) \/ ReduceAll(w)) \/ Finalize

SpecProcess == InitProcess /\ [][NextProcess]_vars

\* C17: in process() the thread count is 1 from before the cache is read until
\* the matrix is there, it is thread_count again before embedding and
\* classification, and whenever process() has ended it is thread_count.
C17_ThreadCountRestored ==
    \A w \in Workers :
        /\ proc[w].pc \in {"narrowed", "missed", "have_data"} => proc[w].threads = 1
        /\ proc[w].pc \in {"restored", "returned"} => proc[w].threads = ThreadCount
        /\ proc[w].pc \in {"returned", "IOError", "AssertionError"} =>
              proc[w].threads = ThreadCount

\* C19: with a cache_file, the matrix process() uses for a view was computed
\* from that view's particles, and no two workers write the cache path.
C19_MatrixOfSameView ==
    job.cache_file # "" =>
        /\ \A w \in Workers : proc[w].data # 0 => proc[w].data = proc[w].view
        /\ Cardinality(matrix_cache.writers) <= 1

\* the particles of micrograph mic the classification accepted, over the views
\* reduced in this run and the finished views, as 1-based indices
AcceptedOf(mic) ==
    { ViewLabel[v][i][2] + 1 :
        <<v, i>> \in { vi \in (job.reduced \cup job.finished) \X (1..2) :
                         /\ vi[2] <= Len(ViewLabel[vi[1]])
                         /\ ViewLabel[vi[1]][vi[2]][1] = mic
                         /\ ViewDist[job.output[vi[1]]][vi[2]]
                               < chi2_ppf(job.prob_reject, DefaultNeig) } }

\* C20: after reduce_all for every processed view and finalize over the
\* finished views, each micrograph's selection list holds every accepted
\* particle exactly once and no rejected particle, also when a view was both
\* reduced and in the finished set.
C20_SelectionExactlyOnce ==
    job.finalized =>
        \A mic \in Micrographs :
            /\ Range(sel_by_mic[mic]) = AcceptedOf(mic)
            /\ Len(sel_by_mic[mic]) = Cardinality(AcceptedOf(mic))


-----------------------------------------------------------------------------
(* diffclean.py: the table of a view, written by process and re-read by     *)
(* finalize                                                                 *)

FeatureStart == 6

\* header='select,dist,mindist,rot,[group,]psi,tx,ty,mirror'
header_columns(with_group) ==
    <<"select", "dist", "mindist", "rot">> \o (IF with_group THEN <<"group">> ELSE <<>>)
        \o <<"psi", "tx", "ty", "mirror">>

FeatureNames == <<"feat1", "feat2">>

\* Mahalanobis distance of a row, by the feature columns it is computed from
\* (here their sum: 0 for a row at the median)
mahalanobis(feat) == [i \in 1..Len(feat) |-> SumSeq(feat[i])]

\* sel of one_class_classification(feat, neig, prob_reject) for the first neig columns
classify_rows(feat, neig) ==
    one_class_classification(
        mahalanobis([i \in 1..Len(feat) |-> SubSeq(feat[i], 1, neig)]),
        neig, neig, 1)

\* feat = data[:, 6:]
features_of_table(data) ==
    [i \in 1..Len(data) |-> SubSeq(data[i], FeatureStart + 1, Len(data[i]))]

\* process, lines 222-235: classify the features and write the table; the
\* writer may put the row ids in front of the given columns
WriteDataset ==
    /\ table.state = "embedded"
    /\ LET sel == classify_rows(table.feat, DefaultNeig)
           ids == [k \in 1..table.prefix |-> "id"]
           row(i) == [k \in 1..table.prefix |-> i]
                       \o <<IF sel[i] THEN 1 ELSE 0, 0, 0, 0>>
                       \o (IF table.with_group THEN <<0>> ELSE <<>>)
                       \o table.meta[i] \o table.feat[i]
       IN  table' = [table EXCEPT
               !.state = "written",
               !.sel = sel,
               !.columns = ids \o header_columns(table.with_group) \o FeatureNames,
               !.rows = [i \in 1..Len(table.feat) |-> row(i)]]
    /\ UNCHANGED <<cleanVars, decVars, winVars, l2Vars, appVars, viewerVars, settingsVars, formatVars, ctfVars, occVars, procVars, rbfVars, benchVars, avgVars, zoomVars, tipVars>>

\* finalize, lines 851-858: read the table, classify again, rewrite select
RewriteSelect ==
    /\ table.state = "written"
    /\ LET feat == features_of_table(table.rows)
           sel == classify_rows(feat, DefaultNeig)
           sindex == CHOOSE k \in 1..Len(table.columns) : table.columns[k] = "select"
       IN  table' = [table EXCEPT
               !.state = "finalized",
               !.fin_columns = SubSeq(table.columns, FeatureStart + 1,
                                      FeatureStart + DefaultNeig),
               !.fin_sel = sel,
               !.rows = [i \in 1..Len(table.rows) |->
                            [table.rows[i] EXCEPT ![sindex] = IF sel[i] THEN 1 ELSE 0]]]
    /\ UNCHANGED <<cleanVars, decVars, winVars, l2Vars, appVars, viewerVars, settingsVars, formatVars, ctfVars, occVars, procVars, rbfVars, benchVars, avgVars, zoomVars, tipVars>>

\* two particles of a view: psi, tx, ty, mirror of the alignment and the two
\* features of the embedding
TableInit ==
    \E with_group \in BOOLEAN, prefix \in {0, 1},
       meta \in [1..2 -> {<<0, 0, 0, 0>>, <<0, 0, 3, 1>>, <<0, 3, 0, 1>>}],
       feat \in [1..2 -> {<<0, 0>>, <<0, 3>>, <<3, 0>>}] :
        table = [NoTable EXCEPT !.state = "embedded", !.with_group = with_group,
                                !.prefix = prefix, !.meta = meta, !.feat = feat]

InitTable == TableInit /\ CleanIdle /\ DecIdle /\ WinIdle /\ L2Idle /\ AppIdle /\ ViewerIdle /\ SettingsIdle /\ FormatIdle /\ CtfIdle /\ OccIdle /\ ProcIdle /\ RbfIdle /\ BenchIdle /\ AvgIdle /\ ZoomIdle /\ TipIdle

NextTable == WriteDataset \/ RewriteSelect

SpecTable == InitTable /\ [][NextTable]_vars

\* C21: for a finished view finalize classifies the feature columns process
\* wrote after the header columns, with and without the group column, so for
\* unchanged features the select column it rewrites equals the selection of
\* process.
C21_FinalizeSameFeatures ==
    table.state = "finalized" =>
        /\ table.fin_columns = FeatureNames
        /\ table.fin_sel = table.sel


-----------------------------------------------------------------------------
(* diffclean.py: process, the search for the kernel bandwidth (scale < 0)   *)

RangeTop == 8

CandidateCount == 3

\* numpy.linspace(minval, maxval, n) on exponents of finite resolution
linspace(minval, maxval, n) ==
    [k \in 1..n |-> minval + ((maxval - minval) * (k - 1)) \div (n - 1)]

\* the kernel sum of a distance matrix at exponent s, numpy.sum(exp(-10**s * data)):
\* it has its largest value up to the exponent `flat`, falls strictly from
\* there on, and is 0 from the exponent `fades` on; a matrix of zeros has the
\* largest value everywhere (flat above the range)
kernel_sum(flat, fades, s) ==
    IF s <= flat THEN RangeTop + 2 ELSE IF s >= fades THEN 0 ELSE fades - s

PyMaxOf(seq) == CHOOSE m \in Range(seq) : \A x \in Range(seq) : x <= m

PyMinOf(seq) == CHOOSE m \in Range(seq) : \A x \in Range(seq) : m <= x

\* lines 183-188
RbfBegin ==
    /\ rbf.pc = "start"
    /\ rbf' = [rbf EXCEPT !.pc = "loop", !.sigma = linspace(0, RangeTop, CandidateCount),
                          !.totmax = 2, !.totmin = 2]
    /\ UNCHANGED <<cleanVars, decVars, winVars, l2Vars, appVars, viewerVars, settingsVars, formatVars, ctfVars, occVars, procVars, tableVars, benchVars, avgVars, zoomVars, tipVars>>

\* lines 189-209: one pass of the while loop
RbfPass ==
    /\ rbf.pc = "loop"
    /\ rbf.totmax + rbf.totmin > 2
    /\ LET n == Len(rbf.sigma)
           kernel_cum == [i \in 1..n |-> kernel_sum(rbf.flat, rbf.fades, rbf.sigma[i])]
           totmax == Cardinality({i \in 1..n : kernel_cum[i] = PyMaxOf(kernel_cum)})
           totmin == Cardinality({i \in 1..n : kernel_cum[i] = PyMinOf(kernel_cum)})
           minval == rbf.sigma[totmax]
           maxval == IF kernel_cum[1] = PyMaxOf(kernel_cum)
                     THEN rbf.sigma[n - totmin + 1]
                     ELSE rbf.sigma[n - totmax + 1]
       IN  rbf' = [rbf EXCEPT !.totmax = totmax, !.totmin = totmin,
                              !.sigma = linspace(minval, maxval, CandidateCount)]
    /\ UNCHANGED <<cleanVars, decVars, winVars, l2Vars, appVars, viewerVars, settingsVars, formatVars, ctfVars, occVars, procVars, tableVars, benchVars, avgVars, zoomVars, tipVars>>

\* the loop condition fails: on to line 210
RbfExit ==
    /\ rbf.pc = "loop"
    /\ rbf.totmax + rbf.totmin <= 2
    /\ rbf' = [rbf EXCEPT !.pc = "done"]
    /\ UNCHANGED <<cleanVars, decVars, winVars, l2Vars, appVars, viewerVars, settingsVars, formatVars, ctfVars, occVars, procVars, tableVars, benchVars, avgVars, zoomVars, tipVars>>

RbfInit ==
    \E flat \in -1..(RangeTop + 1), fades \in 0..(RangeTop + 1) :
        /\ flat < fades \/ flat = RangeTop + 1
        /\ rbf = [pc |-> "start", flat |-> flat, fades |-> fades, sigma |-> <<>>,
                  totmax |-> 0, totmin |-> 0]

InitRbf == RbfInit /\ CleanIdle /\ DecIdle /\ WinIdle /\ L2Idle /\ AppIdle /\ ViewerIdle /\ SettingsIdle /\ FormatIdle /\ CtfIdle /\ OccIdle /\ ProcIdle /\ TableIdle /\ BenchIdle /\ AvgIdle /\ ZoomIdle /\ TipIdle

NextRbf == RbfBegin \/ RbfPass \/ RbfExit

\* the worker keeps running: a step that can be taken is taken
SpecRbf == InitRbf /\ [][NextRbf]_vars /\ WF_vars(NextRbf)

\* C22: the bandwidth search terminates for every finite distance matrix, also
\* when the kernel sums are equal for several or all candidate exponents.
C22_BandwidthSearchTerminates == <>(rbf.pc = "done")


-----------------------------------------------------------------------------
(* align_frames.py: further properties of align_l2 and align_in_memory      *)

\* C23: for n frames and gap >= 1 the pair list of align_l2 holds every pair
\* (i, j) with 0 <= i < j <= n-1 and j - i >= gap exactly once and no other
\* pair, the assertion in the loop never fails, and the row of pair (i, j) in
\* the design matrix has a 1 in exactly the columns i, ..., j-1.
C23_PairsAndDesignRows ==
    l2_out.state # "not called" =>
        LET pairs == l2_out.pairs
            wanted == {p \in (0..(l2_n - 1)) \X (0..(l2_n - 1)) :
                          p[1] < p[2] /\ p[2] - p[1] >= l2_gap}
        IN  /\ l2_out.state # "AssertionError"
            /\ Range(pairs) = wanted
            /\ Len(pairs) = Cardinality(wanted)
            /\ Len(l2_out.A) = Len(pairs)
            /\ \A r \in 1..Len(pairs) :
                  /\ Len(l2_out.A[r]) = l2_n - 1
                  /\ \A col \in 0..(l2_n - 2) :
                        l2_out.A[r][col + 1] =
                            (IF pairs[r][1] <= col /\ col <= pairs[r][2] - 1 THEN 1 ELSE 0)

C23_Witness ==
    /\ l2_out.state = "returned"
    /\ l2_gap >= 2
    /\ Len(l2_out.pairs) >= 3
    /\ \E r \in 1..Len(l2_out.pairs) : l2_out.pairs[r][2] - l2_out.pairs[r][1] > l2_gap


\* C24: the translations align_in_memory returns are the estimated ones
\* multiplied by bin_factor exactly when the frames were binned
\* (bin_factor > 1), and the estimated ones unchanged for a bin_factor at or
\* below 1.
C24_ScaledOnlyWhenBinned ==
    (coords.state = "returned" /\ ~benchmark /\ coords.integral) =>
        coords.trans = IF bin_factor > 1
                       THEN [k \in 1..Len(coords.estimated) |-> coords.estimated[k] * bin_factor]
                       ELSE coords.estimated


-----------------------------------------------------------------------------
(* align_frames.py: what the alignment and averaging functions do to the    *)
(* cached Fourier frames. The heap is the sequence of arrays in memory, an   *)
(* array is named by its position, and an array is one number.              *)

MaxCached == 3

Mem(heap, id) == [heap |-> heap, id |-> id]

copy_alias(heap, id) == Mem(heap, id)

\* a.copy(), numpy.zeros_like(a), a*b, fourier_shift(a, ...): a new array
copy(heap, id) == Mem(Append(heap, heap[id]), Len(heap) + 1)

zeros_like(heap, id) == Mem(Append(heap, 0), Len(heap) + 1)

\* scipy.ndimage.fourier_shift(frame, shift, -1, 0): output=None, a new array
fourier_shift(heap, id) == copy(heap, id)

\* avg += x ; numpy.multiply(ref, filter_kernel, ref)
add_into(heap, target, id) == [heap EXCEPT ![target] = heap[target] + heap[id]]

multiply_into(heap, target) == [heap EXCEPT ![target] = heap[target] * 2]

\* the loop of align_sequential over fourier_frames[1:]
RECURSIVE sequential_loop(_, _, _, _)
sequential_loop(heap, reference, rest, lowpass) ==
    IF rest = <<>> THEN heap
    ELSE LET filtered == IF lowpass THEN multiply_into(heap, reference) ELSE heap
             shifted == fourier_shift(filtered, Head(rest))
         IN  sequential_loop(add_into(shifted.heap, reference, shifted.id), reference,
                             Tail(rest), lowpass)

\* align_sequential: ref = fourier_frames[0].copy(), then the loop
sequential_heap(heap, frames, lowpass) ==
    LET reference == copy(heap, frames[1])
    IN  sequential_loop(reference.heap, reference.id, Tail(frames), lowpass)

\* align_l2 / align_mean_displacement: fourier_frames[i]*filter_kernel is a
\* new array for every pair
RECURSIVE pairwise_heap(_, _)
pairwise_heap(heap, frames) ==
    IF Len(frames) < 2 THEN heap
    ELSE LET filtered == copy(heap, frames[1])
         IN  pairwise_heap(multiply_into(filtered.heap, filtered.id), Tail(frames))

\* average_fft: avg = zeros_like(fourier_frames[0]); avg += frame or its shift
RECURSIVE average_loop(_, _, _, _)
average_loop(heap, avg, rest, with_trans) ==
    IF rest = <<>> THEN heap
    ELSE IF with_trans
         THEN LET shifted == fourier_shift(heap, Head(rest))
              IN  average_loop(add_into(shifted.heap, avg, shifted.id), avg, Tail(rest), with_trans)
         ELSE average_loop(add_into(heap, avg, Head(rest)), avg, Tail(rest), with_trans)

average_fft(heap, frames, with_trans) ==
    LET avg == zeros_like(heap, frames[1])
    IN  average_loop(avg.heap, avg.id, frames, with_trans)

\* write_perdiogram(list, index, trans): returns at once without a diagnostic file
write_perdiogram(heap, frames, diagnostic) ==
    IF diagnostic THEN average_fft(heap, frames, TRUE) ELSE heap

\* fft_in_memory: the frames of the movie, transformed, in a new list
FftInMemory ==
    /\ bench.pc = "start"
    /\ \E n \in 1..MaxCached : \E values \in [1..n -> {1, 2}] :
          bench' = [bench EXCEPT !.pc = "cached", !.heap = values,
                                 !.fourier_frames = [k \in 1..n |-> k], !.cached = values]
    /\ UNCHANGED <<cleanVars, decVars, winVars, l2Vars, appVars, viewerVars, settingsVars, formatVars, ctfVars, occVars, procVars, tableVars, rbfVars, avgVars, zoomVars, tipVars>>

\* align_in_memory, lines 254-262
AlignInMemory ==
    /\ bench.pc = "cached"
    /\ ~bench.benchmark
    /\ LET aligned == IF bench.mode = 0
                      THEN sequential_heap(bench.heap, bench.fourier_frames, bench.lowpass)
                      ELSE pairwise_heap(bench.heap, bench.fourier_frames)
       IN  bench' = [bench EXCEPT
               !.pc = "aligned",
               !.heap = write_perdiogram(aligned, bench.fourier_frames, bench.diagnostic)]
    /\ UNCHANGED <<cleanVars, decVars, winVars, l2Vars, appVars, viewerVars, settingsVars, formatVars, ctfVars, occVars, procVars, tableVars, rbfVars, avgVars, zoomVars, tipVars>>

\* benchmark_in_memory, lines 292-293, 295-297, 299-301, 303-305
BenchStep ==
    /\ bench.benchmark
    /\ \/ /\ bench.pc = "cached"
          /\ bench' = [bench EXCEPT !.pc = "averaged",
                !.heap = average_fft(bench.heap, bench.fourier_frames, FALSE)]
       \/ /\ bench.pc = "averaged"
          /\ bench' = [bench EXCEPT !.pc = "sequential",
                !.heap = average_fft(sequential_heap(bench.heap, bench.fourier_frames,
                                                     bench.lowpass),
                                     bench.fourier_frames, TRUE)]
       \/ /\ bench.pc \in {"sequential", "l2"}
          /\ bench' = [bench EXCEPT !.pc = IF bench.pc = "sequential" THEN "l2" ELSE "mean",
                !.heap = average_fft(pairwise_heap(bench.heap, bench.fourier_frames),
                                     bench.fourier_frames, TRUE)]
    /\ UNCHANGED <<cleanVars, decVars, winVars, l2Vars, appVars, viewerVars, settingsVars, formatVars, ctfVars, occVars, procVars, tableVars, rbfVars, avgVars, zoomVars, tipVars>>

BenchInit ==
    \E lowpass \in BOOLEAN, diagnostic \in BOOLEAN, bm \in BOOLEAN, md \in {0, 1} :
        bench = [pc |-> "start", heap |-> <<>>, fourier_frames |-> <<>>, cached |-> <<>>,
                 lowpass |-> lowpass, diagnostic |-> diagnostic, benchmark |-> bm, mode |-> md]

InitBench == BenchInit /\ CleanIdle /\ DecIdle /\ WinIdle /\ L2Idle /\ AppIdle /\ ViewerIdle /\ SettingsIdle /\ FormatIdle /\ CtfIdle /\ OccIdle /\ ProcIdle /\ TableIdle /\ RbfIdle /\ AvgIdle /\ ZoomIdle /\ TipIdle

NextBench == FftInMemory \/ AlignInMemory \/ BenchStep

SpecBench == InitBench /\ [][NextBench]_vars

\* C25: align_sequential, align_l2, align_mean_displacement, average_fft and
\* write_perdiogram change neither the list of cached frames nor a frame in
\* it, with or without a low-pass kernel: all of them work on the frames of
\* the one fft_in_memory call.
C25_CachedFramesUntouched ==
    bench.pc \notin {"idle", "start"} =>
        /\ bench.fourier_frames = [k \in 1..Len(bench.cached) |-> k]
        /\ \A k \in 1..Len(bench.cached) : bench.heap[k] = bench.cached[k]

C25_Witness ==
    /\ bench.pc = "mean"
    /\ bench.lowpass
    /\ Len(bench.cached) >= 2
    /\ Len(bench.heap) > Len(bench.cached)
    /\ \E k \in (Len(bench.cached) + 1)..Len(bench.heap) : bench.heap[k] > bench.cached[1]


\* the number of pages of the list on display
PageCount == ceil_div(imageTotal(average, self_files, file_index), imageCountSpinBox.value)

\* C26: with at least one open file, after a page load the page number shown
\* is a page in 1..page count; a load that found the requested page out of
\* range leaves page 1 with page size 1; Forward is enabled only when a next
\* page exists and Backward only when a previous page exists.
C26_PageValidAndActionsMatch ==
    (last_call.load.ran /\ Len(self_files) >= 1 /\ last_call.load.average = average) =>
        /\ pageSpinBox.value \in 1..PageCount
        /\ last_call.load.reset => (pageSpinBox.value = 1 /\ imageCountSpinBox.value = 1)
        /\ actionForward => pageSpinBox.value < PageCount
        /\ actionBackward => pageSpinBox.value > 1


-----------------------------------------------------------------------------
(* ImageViewer.py iter_images in average mode over eman_format.iter_images:  *)
(* one EMData object is read into for every image of the file, and           *)
(* read_image returns em2numpy(emdata) without a copy when given a cache.    *)
(* An image is one number; `shares` says whether the array em2numpy returns  *)
(* is the memory of the EMData object or memory of its own.                  *)

MaxStackImages == 3

\* the array the name avg is bound to
AvgArray == IF averaging.view THEN averaging.emdata ELSE averaging.own

\* for f in index: avg = None; emdata = EMData(); count = count_images(f)
AvgBegin ==
    /\ averaging.pc = "start"
    /\ averaging' = [averaging EXCEPT !.pc = "iter", !.i = 0]
    /\ UNCHANGED <<cleanVars, decVars, winVars, l2Vars, appVars, viewerVars, settingsVars, formatVars, ctfVars, occVars, procVars, tableVars, rbfVars, benchVars, zoomVars, tipVars>>

\* img = read_image(filename, i, header, emdata); yield img;
\* if avg is None: avg = img  else: avg += img
AvgStep ==
    /\ averaging.pc = "iter"
    /\ averaging.i < Len(averaging.images)
    /\ LET read == averaging.images[averaging.i + 1]
       IN  averaging' =
             IF averaging.i = 0
             THEN [averaging EXCEPT !.i = 1, !.emdata = read,
                                    !.view = averaging.shares, !.own = read]
             ELSE IF averaging.view
             THEN [averaging EXCEPT !.i = @ + 1, !.emdata = read + read]
             ELSE [averaging EXCEPT !.i = @ + 1, !.emdata = read, !.own = @ + read]
    /\ UNCHANGED <<cleanVars, decVars, winVars, l2Vars, appVars, viewerVars, settingsVars, formatVars, ctfVars, occVars, procVars, tableVars, rbfVars, benchVars, zoomVars, tipVars>>

\* the iterator is exhausted: yield (f, 0), normalize_min_max(avg), apix
AvgYield ==
    /\ averaging.pc = "iter"
    /\ averaging.i = Len(averaging.images)
    /\ averaging' = [averaging EXCEPT !.pc = "yielded"]
    /\ UNCHANGED <<cleanVars, decVars, winVars, l2Vars, appVars, viewerVars, settingsVars, formatVars, ctfVars, occVars, procVars, tableVars, rbfVars, benchVars, zoomVars, tipVars>>

AvgInit ==
    \E n \in 1..MaxStackImages : \E images \in [1..n -> {1, 2, 3}] : \E shares \in BOOLEAN :
        averaging = [pc |-> "start", images |-> images, shares |-> shares, emdata |-> 0,
                     view |-> FALSE, own |-> 0, i |-> 0]

InitAverage == AvgInit /\ CleanIdle /\ DecIdle /\ WinIdle /\ L2Idle /\ AppIdle /\ ViewerIdle /\ SettingsIdle /\ FormatIdle /\ CtfIdle /\ OccIdle /\ ProcIdle /\ TableIdle /\ RbfIdle /\ BenchIdle /\ ZoomIdle /\ TipIdle

NextAverage == AvgBegin \/ AvgStep \/ AvgYield

SpecAverage == InitAverage /\ [][NextAverage]_vars

\* C27: in average mode the image shown for a file is the sum of all images
\* of the file, each counted once, although the iterator reads every image
\* into one buffer.
C27_AverageIsSumOfAll ==
    averaging.pc = "yielded" => AvgArray = SumSeq(averaging.images)


\* C28: the list of open files never holds one absolute path twice, also
\* after a batch that names a file twice or names an open file, so the
\* images of no file are indexed twice.
C28_NoPathOpenTwice ==
    \A j, k \in 1..Len(self_files) : self_files[j] = self_files[k] => j = k


-----------------------------------------------------------------------------
(* ImageViewer.py: the zoom slider and the zoom spin box. The slider runs    *)
(* over 0..ZoomSliderMaximum, a zoom factor is a number of steps of          *)
(* 1/ZoomSliderMaximum, and `pending` holds the valueChanged signals that    *)
(* were emitted and whose slot has not run yet.                              *)

ZoomSliderMaximum == 4
ZoomSpinMaximum == 6
MaxHandlerRuns == 3
ImageSizes == {0, 3, 8}

\* QObject.blockSignals(b) on a widget: whether its signals are blocked
blockSignals_ignored(b) == FALSE

blockSignals(b) == b

\* QAbstractSlider.setValue / QDoubleSpinBox.setValue: the value is kept in
\* the widget's range and valueChanged is emitted when the value changed and
\* the signals are not blocked
set_widget(z, widget, v, top, blocked) ==
    LET kept == IF v < 0 THEN 0 ELSE IF v > top THEN top ELSE v
        old == IF widget = "slider" THEN z.slider ELSE z.spin
        emitted == IF kept # old /\ ~blocked THEN <<<<widget, kept>>>> ELSE <<>>
        moved == IF widget = "slider" THEN [z EXCEPT !.slider = kept]
                 ELSE [z EXCEPT !.spin = kept]
    IN  [moved EXCEPT !.pending = @ \o emitted]

\* max(5, int(self.imagesize*zoom))
icon_size(imagesize, zoom) ==
    LET n == (imagesize * zoom) \div ZoomSliderMaximum
    IN  IF n < 5 THEN 5 ELSE n

\* on_imageZoomDoubleSpinBox_valueChanged(zoom); int(maximum*zoom) falls
\* short of the exact product by `short` when the float product does
on_imageZoomDoubleSpinBox_valueChanged(z, zoom, short) ==
    LET slid == set_widget(z, "slider", zoom - short, ZoomSliderMaximum, blockSignals(TRUE))
    IN  [slid EXCEPT !.spin_runs = @ + 1,
                     !.icon = IF z.imagesize > 0 THEN icon_size(z.imagesize, zoom) ELSE @]

\* on_zoomSlider_valueChanged(zoom)
on_zoomSlider_valueChanged(z, zoom, short) ==
    LET spun == set_widget(z, "spin", zoom, ZoomSpinMaximum, blockSignals(TRUE))
    IN  on_imageZoomDoubleSpinBox_valueChanged([spun EXCEPT !.slider_runs = @ + 1], zoom, short)

\* the user moves the slider or edits the spin box
UserChangesZoom ==
    /\ zoomui.pending = <<>>
    /\ \E widget \in {"slider", "spin"} :
       \E v \in 0..(IF widget = "slider" THEN ZoomSliderMaximum ELSE ZoomSpinMaximum) :
          /\ v # (IF widget = "slider" THEN zoomui.slider ELSE zoomui.spin)
          /\ zoomui' = set_widget([zoomui EXCEPT !.slider_runs = 0, !.spin_runs = 0,
                                                 !.zoom = v],
                                  widget, v, ZoomSpinMaximum, FALSE)
    /\ UNCHANGED <<cleanVars, decVars, winVars, l2Vars, appVars, viewerVars, settingsVars, formatVars, ctfVars, occVars, procVars, tableVars, rbfVars, benchVars, avgVars, tipVars>>

\* the slot of the oldest pending signal runs
RunSlot ==
    /\ zoomui.pending # <<>>
    /\ zoomui.slider_runs < MaxHandlerRuns
    /\ zoomui.spin_runs < MaxHandlerRuns
    /\ LET signal == Head(zoomui.pending)
           z == [zoomui EXCEPT !.pending = Tail(@)]
       IN  \E short \in {0, 1} :
              /\ short <= signal[2]
              /\ zoomui' = IF signal[1] = "slider"
                           THEN on_zoomSlider_valueChanged(z, signal[2], short)
                           ELSE on_imageZoomDoubleSpinBox_valueChanged(z, signal[2], short)
    /\ UNCHANGED <<cleanVars, decVars, winVars, l2Vars, appVars, viewerVars, settingsVars, formatVars, ctfVars, occVars, procVars, tableVars, rbfVars, benchVars, avgVars, tipVars>>

\* MainWindow.__init__: self.imagesize = 0; a page load sets it
LoadSetsImageSize ==
    /\ zoomui.pending = <<>>
    /\ \E size \in ImageSizes \ {zoomui.imagesize} :
          zoomui' = [zoomui EXCEPT !.imagesize = size,
                                   !.icon = icon_size(size, zoomui.spin)]
    /\ UNCHANGED <<cleanVars, decVars, winVars, l2Vars, appVars, viewerVars, settingsVars, formatVars, ctfVars, occVars, procVars, tableVars, rbfVars, benchVars, avgVars, tipVars>>

ZoomInit ==
    zoomui = [slider |-> 0, spin |-> 0, pending |-> <<>>, slider_runs |-> 0, spin_runs |-> 0,
              icon |-> 0, imagesize |-> 0, zoom |-> 0]

InitZoom == ZoomInit /\ CleanIdle /\ DecIdle /\ WinIdle /\ L2Idle /\ AppIdle /\ ViewerIdle /\ SettingsIdle /\ FormatIdle /\ CtfIdle /\ OccIdle /\ ProcIdle /\ TableIdle /\ RbfIdle /\ BenchIdle /\ AvgIdle /\ TipIdle

NextZoom == UserChangesZoom \/ RunSlot \/ LoadSetsImageSize

SpecZoom == InitZoom /\ [][NextZoom]_vars

\* C29: a change of the zoom slider or the zoom spin box updates the other
\* widget with its signals blocked: per user change each of the two handlers
\* runs at most once and no signal is pending when the slot returns; then,
\* when an image size is known, the icon size is max(5, int(imagesize*zoom)),
\* and an icon size that was set is never below 5.
C29_ZoomSyncRunsOnce ==
    /\ zoomui.slider_runs <= 1
    /\ zoomui.spin_runs <= 1
    /\ Len(zoomui.pending) <= 1
    /\ zoomui.spin_runs = 1 =>
          /\ zoomui.pending = <<>>
          /\ zoomui.imagesize > 0 => zoomui.icon = icon_size(zoomui.imagesize, zoomui.zoom)
    /\ zoomui.imagesize > 0 => zoomui.icon >= 5

C29_Witness ==
    /\ zoomui.slider_runs = 1
    /\ zoomui.spin_runs = 1
    /\ zoomui.pending = <<>>
    /\ zoomui.imagesize = 8
    /\ zoomui.zoom = 3
    /\ zoomui.icon = icon_size(8, 3)
    /\ zoomui.spin = 3
    /\ zoomui.slider = 2


-----------------------------------------------------------------------------
(* ImageViewer.py: addToolTipImage for one thumbnail. `kinds` lists the      *)
(* tooltips item.setToolTip was called with.                                 *)

PowerSpectraOptions == {0, 3, 4, 8}

\* os.path.exists(second_image), after the path_prefix fallback of line 545
second_exists(t) == t.exists \/ (t.path_prefix /\ t.prefixed)

\* MainWindow.addToolTipImage
addToolTipImage(t) ==
    IF t.first /\ t.second_image
    THEN IF second_exists(t) THEN <<"image">> ELSE <<>>
    ELSE IF t.power_spectra > 3
         THEN IF t.current_powerspec THEN <<>> ELSE <<"periodogram">>
         ELSE <<"text">>

AddToolTipImage ==
    /\ tooltip.pc = "item"
    /\ tooltip' = [tooltip EXCEPT !.pc = "done", !.kinds = addToolTipImage(tooltip)]
    /\ UNCHANGED <<cleanVars, decVars, winVars, l2Vars, appVars, viewerVars, settingsVars, formatVars, ctfVars, occVars, procVars, tableVars, rbfVars, benchVars, avgVars, zoomVars>>

\* the next thumbnail of the page
NextThumbnail ==
    /\ tooltip.pc \in {"page", "done"}
    /\ \E first \in BOOLEAN, exists \in BOOLEAN, prefixed \in BOOLEAN :
          tooltip' = [tooltip EXCEPT !.pc = "item", !.first = first, !.exists = exists,
                                     !.prefixed = prefixed, !.kinds = <<>>]
    /\ UNCHANGED <<cleanVars, decVars, winVars, l2Vars, appVars, viewerVars, settingsVars, formatVars, ctfVars, occVars, procVars, tableVars, rbfVars, benchVars, avgVars, zoomVars>>

\* the advanced settings in effect when a page is loaded
TipInit ==
    \E second_image \in BOOLEAN, path_prefix \in BOOLEAN, current_powerspec \in BOOLEAN,
       power_spectra \in PowerSpectraOptions :
        tooltip = [pc |-> "page", first |-> FALSE, second_image |-> second_image,
                   exists |-> FALSE, path_prefix |-> path_prefix, prefixed |-> FALSE,
                   current_powerspec |-> current_powerspec, power_spectra |-> power_spectra,
                   kinds |-> <<>>]

InitTip == TipInit /\ CleanIdle /\ DecIdle /\ WinIdle /\ L2Idle /\ AppIdle /\ ViewerIdle /\ SettingsIdle /\ FormatIdle /\ CtfIdle /\ OccIdle /\ ProcIdle /\ TableIdle /\ RbfIdle /\ BenchIdle /\ AvgIdle /\ ZoomIdle

NextTip == AddToolTipImage \/ NextThumbnail

SpecTip == InitTip /\ [][NextTip]_vars

\* C30: addToolTipImage gives every thumbnail exactly one tooltip: the second
\* image when one is configured and found, else the periodogram when the
\* source is no power spectrum and the power-spectra option is above 3, else
\* the text label.
C30_ExactlyOneTooltip ==
    tooltip.pc = "done" =>
        tooltip.kinds =
            IF tooltip.first /\ tooltip.second_image /\ second_exists(tooltip)
            THEN <<"image">>
            ELSE IF ~tooltip.current_powerspec /\ tooltip.power_spectra > 3
                 THEN <<"periodogram">>
                 ELSE <<"text">>

=============================================================================
